---- MODULE Spec2Model ----
(***************************************************************************)
(* State-machine model of the LinearTransformations playground:            *)
(*   App            (the state container, its handlers, directionRef)      *)
(*   useAnimationFrame (the requestAnimationFrame driver hook)             *)
(*   Sidebar        (the numeric inputs and the preset list)               *)
(*   CanvasView     (camera model and the pointer / wheel controller)      *)
(*   linearAlgebra  (multiplyMatrixVector, clamp)                          *)
(*   presets        (the preset table)                                     *)
(*                                                                         *)
(* State updates.  Every handler of App changes the state with             *)
(* setState(updater): the updater is queued and runs when React renders.   *)
(* The variables matrix .. isPlaying hold the state of the latest render   *)
(* while no render is in progress: it is what the props and the closures   *)
(* of the handlers read.  A render takes the queued updaters in the order  *)
(* in which they were queued (one step of ProcessUpdate each), and its     *)
(* commit (CommitRender) recomputes the memo and runs the effect of        *)
(* useAnimationFrame.  A click, a change, a pointer-down and a pointer-up  *)
(* are discrete events: React renders before the event returns when its    *)
(* handler has queued an updater.  A pointer-move, a pointer-leave, a      *)
(* wheel event and an animation tick only queue; the render follows in a   *)
(* later task, and further events may arrive before it.                    *)
(*                                                                         *)
(* Numbers.  A number of the program is an IEEE 754 double, and so is a     *)
(* number of the model: NaN, an infinity, a zero with its sign, or          *)
(* s * m * 2^e with the odd mantissa m held as a natural number of any      *)
(* length.  Every operation computes its exact result and rounds it to the  *)
(* nearest double, ties to even, as the hardware does; Math.exp and         *)
(* Math.hypot follow the algorithms of the engine (V8) operation by         *)
(* operation, Number.parseFloat reads the code units of its text.           *)
(* Math.cos and Math.sin are given by their values at the seven angles at   *)
(* which presets.ts calls them.  Pointer positions, the viewport size,      *)
(* wheel deltas and time stamps are integers of the model, converted to     *)
(* doubles where the program computes with them.                            *)
(* A text is the sequence of its UTF-16 code units.  An optional value (a   *)
(* ref holding undefined) is the empty tuple << >>, a defined one << v >>.  *)
(***************************************************************************)
EXTENDS Integers, Sequences, FiniteSets, Bags, TLC

VARIABLES
    matrix,           \* AppState.matrix
    t,                \* AppState.t
    probeVector,      \* AppState.probeVector
    pinnedVectors,    \* AppState.pinnedVectors
    camera,           \* AppState.camera
    gridMode,         \* AppState.gridMode
    presetId,         \* AppState.presetId
    isPlaying,        \* AppState.isPlaying
    directionRef,     \* App: directionRef.current
    transformedProbe, \* App: the memo computed by the latest render
    queue,            \* React: the updaters queued by setState, oldest first
    rendering,        \* React: a render is in progress
    effectActive,     \* React: the `active` the effect of useAnimationFrame last ran with
    requestRef,       \* useAnimationFrame: requestRef.current
    previousRef,      \* useAnimationFrame: previousRef.current
    pending,          \* browser: handles of the scheduled frame callbacks
    mounted,          \* FALSE once the component has been torn down
    now,              \* browser: time stamp of the latest display refresh
    frameSeen,        \* history: a frame callback ran since the last activation
    dragModeRef,      \* CanvasView: dragModeRef.current
    pointerMovedRef,  \* CanvasView: pointerMovedRef.current
    lastPointerRef,   \* CanvasView: lastPointerRef.current
    gestureMoved,     \* history: a pointer-move arrived since the last pointer-down
    canvasEvents,     \* history: number of pointer and wheel events so far
    repeatedEvent,    \* history: the latest canvas event repeated the event before it
    renderedSince,    \* history: a render was committed since the latest event
    lastUpdate,       \* history: the updater that ran last
    lastEvent         \* history: the handler that ran last, with its input

stateVars  == <<matrix, t, probeVector, pinnedVectors, camera, gridMode, presetId,
                isPlaying>>
appVars    == <<stateVars, directionRef, transformedProbe>>
reactVars  == <<queue, rendering, effectActive, lastUpdate, renderedSince>>
hookVars   == <<requestRef, previousRef, pending, mounted, now, frameSeen>>
canvasVars == <<dragModeRef, pointerMovedRef, lastPointerRef, gestureMoved,
                canvasEvents, repeatedEvent>>
vars       == <<appVars, reactVars, hookVars, canvasVars, lastEvent>>

----------------------------------------------------------------------------
(* Numbers: natural numbers of any length *)


\* A limb holds LimbBits bits.
Base == 2^14
LimbBits == CHOOSE k \in 1..30 : 2^k = Base

\* The sum of a sequence of natural numbers: the size of the bag that holds
\* f[i] + 1 copies of i, less its Len(f) extra copies.
Sum(f) == BagCardinality([i \in 1..Len(f) |-> f[i] + 1]) - Len(f)

\* The tuple of a function on 1..n: its values, each computed once.
Tuple(f) == f \o << >>

Zeros(n) == Tuple([i \in 1..n |-> 0])

\* A natural number is the sequence of its limbs, the lowest first and the
\* highest not 0.  No operator on them recurses along the limbs.
Limb(a, i) == IF 1 <= i /\ i <= Len(a) THEN a[i] ELSE 0

BigNorm(a) ==
    SubSeq(a, 1, IF \A i \in 1..Len(a) : a[i] = 0 THEN 0
                 ELSE CHOOSE i \in 1..Len(a) :
                          a[i] # 0 /\ \A j \in (i + 1)..Len(a) : a[j] = 0)

\* for 0 <= n < 2^31
BigOfInt(n) == BigNorm(<<n % Base, (n \div Base) % Base, n \div (Base * Base)>>)

\* for a < 2^31
BigToInt(a) == Limb(a, 1) + (Base * Limb(a, 2)) + (Base * Base * Limb(a, 3))

\* Call(op, arg): the operator named op applied to the arguments arg.  It is
\* defined below, after the functions of the source.
RECURSIVE Call(_, _)

\* The carry into limb i of a + b + c, for c in {0, 1}: that of the nearest
\* limb below i whose sum is not Base - 1.
CarryInto(a, b, c, i) == Call("CarryInto", <<a, b, c, i>>)

BigAddC(a, b, c) == Call("BigAddC", <<a, b, c>>)

BigAdd(a, b) == BigAddC(a, b, 0)

\* The borrow from limb i of a - b: that of the nearest limb below i in which
\* a and b differ.
BorrowFrom(a, b, i) == Call("BorrowFrom", <<a, b, i>>)

\* a - b for a >= b
BigSub(a, b) == Call("BigSub", <<a, b>>)

\* comparison: -1, 0, 1
BigCmp(a, b) == Call("BigCmp", <<a, b>>)

\* a * n for 0 <= n < Base: the low halves of the limb products, and the high
\* halves one limb up
BigMulSmall(a, n) ==
    BigAdd(Tuple([i \in 1..Len(a) |-> (a[i] * n) % Base]),
           <<0>> \o [i \in 1..Len(a) |-> (a[i] * n) \div Base])

\* The sum of column k of the product a * b: the low halves of the limb
\* products a[i] * b[k + 1 - i], and the high halves of those of column k - 1.
Column(a, b, k) == Call("Column", <<a, b, k>>)

BigMul(a, b) == Call("BigMul", <<a, b>>)

\* the number of bits of a limb
IntBits(n) == CHOOSE k \in 0..LimbBits : n < 2^k /\ (k = 0 \/ n >= 2^(k - 1))

BitLength(a) == IF a = << >> THEN 0 ELSE (LimbBits * (Len(a) - 1)) + IntBits(a[Len(a)])

ShiftLeft(a, k) == Call("ShiftLeft", <<a, k>>)

ShiftRight(a, k) == Call("ShiftRight", <<a, k>>)

TestBit(a, i) == (Limb(a, (i \div LimbBits) + 1) \div 2^(i % LimbBits)) % 2

\* bits 0..k-1 of a are all zero
LowZero(a, k) ==
    /\ \A i \in 1..Len(a) : i <= k \div LimbBits => a[i] = 0
    /\ Limb(a, (k \div LimbBits) + 1) % 2^(k % LimbBits) = 0

\* the number of zero bits below the lowest set bit of a # 0
TrailingZeros(a) == Call("TrailingZeros", <<a>>)

\* one quotient digit: the largest g with g * d <= r, for r < d * Base and
\* a divisor whose top limb is at least Base / 2
DigitOf(r, d) == Call("DigitOf", <<r, d>>)

\* One step of the long division of a by d: limb i of a is brought down to
\* the remainder s.r and the quotient digit is put below those of s.q; no
\* step for i < 1.
DivStep(a, d, i, s) == Call("DivStep", <<a, d, i, s>>)

\* the steps for the limbs i, i - 1, ..., 1 of a
DivSteps(a, d, i, s) == Call("DivSteps", <<a, d, i, s>>)

\* the quotient of a by d # 0, and whether the division leaves a remainder
BigDivMod(a, d) == Call("BigDivMod", <<a, d>>)

\* One step of Newton's iteration for the square root of a.
SqrtStep(a, x) == ShiftRight(BigAdd(x, BigDivMod(a, x).q), 1)

\* the least of the natural numbers xs
BigLeast(xs) == xs[CHOOSE i \in 1..Len(xs) : \A j \in 1..Len(xs) : BigCmp(xs[i], xs[j]) <= 0]

\* The integer square root of a # 0: the least of the iterates, which fall
\* from a start above the root until they reach it.
BigSqrtUpTo(a, r) == Call("BigSqrtUpTo", <<a, r>>)
BigSqrtFrom(a, x0) == Call("BigSqrtFrom", <<a, x0>>)

BigSqrt(a) == BigSqrtFrom(a, ShiftLeft(<<1>>, (BitLength(a) + 1) \div 2))

BigSquare(a) == BigMul(a, a)

\* 10^(2^(j-1)) for j = 1..11
Pow10Squares ==
    LET p1  == <<10>>
        p2  == BigSquare(p1)
        p3  == BigSquare(p2)
        p4  == BigSquare(p3)
        p5  == BigSquare(p4)
        p6  == BigSquare(p5)
        p7  == BigSquare(p6)
        p8  == BigSquare(p7)
        p9  == BigSquare(p8)
        p10 == BigSquare(p9)
        p11 == BigSquare(p10)
    IN  <<p1, p2, p3, p4, p5, p6, p7, p8, p9, p10, p11>>

PowStep(acc, n, j) == Call("PowStep", <<acc, n, j>>)

\* 10^n
BigPow10(n) == Call("BigPow10", <<n>>)

----------------------------------------------------------------------------
\* A Number is NaN, an infinity with its sign s, or the finite number
\* s * m * 2^e with an odd natural m, or m = 0 with e = 0 (the two zeros).
Zero(s) == [k |-> "fin", s |-> s, m |-> << >>, e |-> 0]
Inf(s) == [k |-> "inf", s |-> s, m |-> << >>, e |-> 0]
NaN == [k |-> "nan", s |-> 1, m |-> << >>, e |-> 0]

IsZero(x) == x.k = "fin" /\ x.m = << >>
IsNaN(x) == x.k = "nan"
IsNumber(x) == x.k = "fin" /\ x.m # << >>

\* the number s * m * 2^e, which is a double
Canon(s, m, e) ==
    IF m = << >> THEN Zero(s)
    ELSE [k |-> "fin", s |-> s, m |-> ShiftRight(m, TrailingZeros(m)),
          e |-> e + TrailingZeros(m)]

\* The double nearest to s * (m + f) * 2^e, ties to the even one, where
\* 0 <= f < 1 and sticky says f > 0 (m then has more than 54 bits).
Round(s, m, e, sticky) == Call("Round", <<s, m, e, sticky>>)

FNeg(x) == [x EXCEPT !.s = 0 - x.s]
FAbs(x) == [x EXCEPT !.s = 1]

\* x * y
FMul(x, y) == Call("FMul", <<x, y>>)

\* x + y for two numbers that are finite and not 0, the first of the larger
\* magnitude or with the higher top bit.  A y that lies wholly below the
\* rounding position of x only tells on which side of x the sum lies.
AddOrdered(x, y) == Call("AddOrdered", <<x, y>>)

\* x + y
FAdd(x, y) == Call("FAdd", <<x, y>>)

\* x - y
FSub(x, y) == FAdd(x, [y EXCEPT !.s = 0 - y.s])

\* x / y
FDiv(x, y) == Call("FDiv", <<x, y>>)

\* the sign of a number that is not NaN: -1, 0, 1
Sign(x) == IF IsZero(x) THEN 0 ELSE x.s

\* comparison of the magnitudes of two non-zero numbers, neither NaN: -1, 0, 1
MagCmp(x, y) == Call("MagCmp", <<x, y>>)

\* comparison of two numbers, neither NaN: -1, 0, 1
FCmp(x, y) == Call("FCmp", <<x, y>>)

\* x < y, x <= y, x === y, x > y
FLess(x, y) == ~IsNaN(x) /\ ~IsNaN(y) /\ FCmp(x, y) < 0
FLeq(x, y) == ~IsNaN(x) /\ ~IsNaN(y) /\ FCmp(x, y) <= 0
FEq(x, y) == ~IsNaN(x) /\ ~IsNaN(y) /\ FCmp(x, y) = 0
FGreater(x, y) == FLess(y, x)

\* Math.min, Math.max of two arguments: NaN if either is, -0 below +0
MathMin(x, y) ==
    IF IsNaN(x) \/ IsNaN(y) THEN NaN
    ELSE IF FCmp(x, y) < 0 THEN x
    ELSE IF FCmp(y, x) < 0 THEN y
    ELSE IF x.s < y.s THEN x ELSE y
MathMax(x, y) ==
    IF IsNaN(x) \/ IsNaN(y) THEN NaN
    ELSE IF FCmp(x, y) > 0 THEN x
    ELSE IF FCmp(y, x) > 0 THEN y
    ELSE IF x.s > y.s THEN x ELSE y

Number_isFinite(x) == x.k = "fin"

\* the number of an integer of magnitude below 2^31
FromInt(n) == Call("FromInt", <<n>>)

\* the integer part of a finite number of magnitude below 2^31
Truncate(x) == Call("Truncate", <<x>>)

\* Math.sqrt
FSqrt(x) == Call("FSqrt", <<x>>)

\* the number nearest to s * digits * 10^exponent
Decimal(s, digits, exponent) == Call("Decimal", <<s, digits, exponent>>)

----------------------------------------------------------------------------
\* the code unit of a character that the texts of the model are written with
IndexIn(str, ch) == CHOOSE i \in 1..Len(str) : SubSeq(str, i, i) = ch
Occurs(str, ch) == Call("Occurs", <<str, ch>>)
CodeUnit(ch) == Call("CodeUnit", <<ch>>)

\* a text: the sequence of the code units of its characters
Text(str) == Tuple([i \in 1..Len(str) |-> CodeUnit(SubSeq(str, i, i))])

DecimalDigits == 48..57

\* the number of code units at the start of text that are in set
Leading(text, set) ==
    CHOOSE n \in 0..Len(text) :
        /\ \A i \in 1..n : text[i] \in set
        /\ n < Len(text) => text[n + 1] \notin set

\* The natural number that the digits lo..hi of text denote: up to nine
\* digits make an integer, more are halved.
DigitsValue(text, lo, hi) == Call("DigitsValue", <<text, lo, hi>>)

\* An exponent part beyond ExponentCap denotes infinity or zero like the cap.
ExponentCap == 10^5

Drop(text, n) == SubSeq(text, n + 1, Len(text))

StartsWith(text, prefix) ==
    Len(text) >= Len(prefix) /\ SubSeq(text, 1, Len(prefix)) = prefix

\* StrWhiteSpaceChar: WhiteSpace (TAB, VT, FF, ZWNBSP and the space separators)
\* and LineTerminator (LF, CR, LS, PS)
WhiteSpace ==
    {9, 10, 11, 12, 13, 32, 160, 5760, 8232, 8233, 8239, 8287, 12288, 65279}
        \cup (8192..8202)

TrimStart(text) == Drop(text, Leading(text, WhiteSpace))

InfinityText == Text("Infinity")

\* the exponent that the digits after "e" and its sign denote
SignedExponent(negative, expDigits) == Call("SignedExponent", <<negative, expDigits>>)

\* the exponent that the text after "e" denotes
ExponentOf(afterE) == Call("ExponentOf", <<afterE>>)

\* the number of a literal with `whole` digits before the point (they are
\* wholeDigits) and `frac` digits after it, which start the text `rest`
ParseExponent(sign, wholeDigits, whole, frac, rest) == Call("ParseExponent", <<sign, wholeDigits, whole, frac, rest>>)

ParseFraction(sign, wholeDigits, whole, afterWhole) ==
    LET hasPoint == Len(afterWhole) > 0 /\ Head(afterWhole) = 46
    IN  ParseExponent(sign, wholeDigits, whole,
                      IF hasPoint THEN Leading(Tail(afterWhole), DecimalDigits) ELSE 0,
                      IF hasPoint THEN Tail(afterWhole) ELSE afterWhole)

ParseWhole(sign, body, whole) == Call("ParseWhole", <<sign, body, whole>>)

ParseBody(sign, body) == Call("ParseBody", <<sign, body>>)

ParseSigned(trimmed) ==
    LET signed == Len(trimmed) > 0 /\ Head(trimmed) \in {43, 45}
    IN  ParseBody(IF signed /\ Head(trimmed) = 45 THEN 0 - 1 ELSE 1,
                  IF signed THEN Tail(trimmed) ELSE trimmed)

\* Number.parseFloat: the number that the longest prefix of the trimmed text
\* denotes which is a decimal literal (an optional sign, then Infinity, or
\* digits with an optional fraction, or a fraction, and an optional exponent
\* part), NaN when no prefix is one.
parseFloat(text) == Call("parseFloat", <<text>>)

\* a numeric literal of the source
Literal(str) == parseFloat(Text(str))

----------------------------------------------------------------------------
\* the upper 32 bits of the encoding of |x|
HighWord(x) == Call("HighWord", <<x>>)

One == [k |-> "fin", s |-> 1, m |-> <<1>>, e |-> 0]
Two == [k |-> "fin", s |-> 1, m |-> <<1>>, e |-> 1]

\* the constants of ieee754::exp
halF == <<Literal("0.5"), Literal("-0.5")>>
o_threshold == Literal("7.09782712893383973096e+02")
u_threshold == Literal("-7.45133219101941108420e+02")
ln2HI == <<Literal("6.93147180369123816490e-01"), Literal("-6.93147180369123816490e-01")>>
ln2LO == <<Literal("1.90821492927058770002e-10"), Literal("-1.90821492927058770002e-10")>>
invln2 == Literal("1.44269504088896338700e+00")
P1 == Literal("1.66666666666666019037e-01")
P2 == Literal("-2.77777777770155933842e-03")
P3 == Literal("6.61375632143793436117e-05")
P4 == Literal("-1.65339022054652515390e-06")
P5 == Literal("4.13813679705723846039e-08")
E == Literal("2.718281828459045")
huge == Literal("1.0e+300")
twom1000 == Literal("9.33263618503218878990e-302")
two1023 == Literal("8.988465674311579539e307")

\* ieee754::exp, the argument reduction: k, hi, lo and the reduced argument
Reduced(k, hi, lo) == [k |-> k, hi |-> hi, lo |-> lo, x |-> FSub(hi, lo)]

ReducedTimes(x, k, tk) == Call("ReducedTimes", <<x, k, tk>>)

ReducedBy(x, k) == ReducedTimes(x, k, FromInt(k))

ExpReduce(x, hx, xsb) == Call("ExpReduce", <<x, hx, xsb>>)

\* ieee754::exp, the primary range: c = x - t * (P1 + t * (P2 + ...)) for
\* t = x * x
ExpPoly(x, xx) == Call("ExpPoly", <<x, xx>>)

\* y * 2^k
ExpScale(k, y) == Call("ExpScale", <<k, y>>)

ExpResult(r, c, xc) == Call("ExpResult", <<r, c, xc>>)

ExpOfPoly(r, c) == ExpResult(r, c, FMul(r.x, c))

\* exp(r.x) * 2^(r.k)
ExpKernel(r) == ExpOfPoly(r, ExpPoly(r.x, FMul(r.x, r.x)))

\* Math.exp (V8: ieee754::exp)
ExpOf(x, hx, xsb) == Call("ExpOf", <<x, hx, xsb>>)

MathExp(x) == ExpOf(x, HighWord(x), IF x.s < 0 THEN 1 ELSE 0)

\* One step of the Kahan summation of the squares.
KahanNext(sum, summand, preliminary) ==
    [sum |-> preliminary, compensation |-> FSub(FSub(preliminary, sum), summand)]

KahanAdd(sum, summand) == KahanNext(sum, summand, FAdd(sum, summand))

KahanStep(acc, n) == KahanAdd(acc.sum, FSub(FMul(n, n), acc.compensation))

HypotMax(x, y) == Call("HypotMax", <<x, y>>)

HypotScaled(x, y, max) == Call("HypotScaled", <<x, y, max>>)

\* Math.hypot of two arguments (V8: MathHypot)
MathHypot(x, y) == HypotScaled(x, y, HypotMax(x, y))

\* Math.PI
MathPI == Literal("3.141592653589793")

\* Math.cos and Math.sin at the angles of the rotation presets, (degrees *
\* Math.PI) / 180 for 15, 30, 45, 60, 90, 120 and 180 degrees: the values of
\* ieee754::cos and ieee754::sin there.
TrigTable ==
    {[x |-> Literal("0.2617993877991494"),
      cos |-> Literal("0.9659258262890683"), sin |-> Literal("0.25881904510252074")],
     [x |-> Literal("0.5235987755982988"),
      cos |-> Literal("0.8660254037844387"), sin |-> Literal("0.49999999999999994")],
     [x |-> Literal("0.7853981633974483"),
      cos |-> Literal("0.7071067811865476"), sin |-> Literal("0.7071067811865475")],
     [x |-> Literal("1.0471975511965976"),
      cos |-> Literal("0.5000000000000001"), sin |-> Literal("0.8660254037844386")],
     [x |-> Literal("1.5707963267948966"),
      cos |-> Literal("6.123233995736766e-17"), sin |-> Literal("1")],
     [x |-> Literal("2.0943951023931953"),
      cos |-> Literal("-0.4999999999999998"), sin |-> Literal("0.8660254037844387")],
     [x |-> Literal("3.141592653589793"),
      cos |-> Literal("-1"), sin |-> Literal("1.2246467991473532e-16")]}

MathCos(x) == Call("MathCos", <<x>>)
MathSin(x) == Call("MathSin", <<x>>)


----------------------------------------------------------------------------
(* Bounds of the model *)

\* Latest time stamp the browser clock reaches (ms).
MaxTime == 10000

\* Number of updaters that wait for a render that has not started.
MaxQueued == 2

\* Time between two display refreshes (ms); 0 is a clock of reduced precision.
FrameGaps == {0, 1250, 2500}

MaxGap == CHOOSE g \in FrameGaps : \A other \in FrameGaps : other <= g

\* The canvas rectangle (getBoundingClientRect), in pixels.
Viewport == [width |-> 800, height |-> 600]

\* Number of pointer and wheel events delivered to the canvas.
MaxCanvasEvents == 3

----------------------------------------------------------------------------
(* utils/linearAlgebra.ts *)

identityMatrix == [a |-> One, b |-> Zero(1), c |-> Zero(1), d |-> One]

\* A product with the transposed matrix.
multiplyMatrixVectorTransposed(m, v) ==
    [x |-> FAdd(FMul(m.a, v.x), FMul(m.c, v.y)),
     y |-> FAdd(FMul(m.b, v.x), FMul(m.d, v.y))]

multiplyMatrixVector(m, v) ==
    [x |-> FAdd(FMul(m.a, v.x), FMul(m.b, v.y)),
     y |-> FAdd(FMul(m.c, v.x), FMul(m.d, v.y))]

\* A clamp that forgets the upper bound.
clampLowerOnly(value, min, max) == MathMax(min, value)

clamp(value, min, max) == MathMin(max, MathMax(min, value))

----------------------------------------------------------------------------
(* hooks/useAnimationFrame.ts *)

\* The browser's handle table.  A handle is opaque, and the browser never
\* hands out one that is still pending; the model takes the smallest handle
\* that is neither pending nor still held in requestRef, so that retired
\* handles are reused and the table stays finite.
requestAnimationFrame(pend, ref) ==
    LET held == IF ref = << >> THEN {} ELSE {ref[1]}
    IN  CHOOSE id \in 1..(Cardinality(pend) + 2) :
            /\ id \notin pend \cup held
            /\ \A other \in 1..(Cardinality(pend) + 2) :
                   other \notin pend \cup held => id <= other

\* A cancellation that releases nothing.
cancelNothing(pend, ref) == pend

cancelAnimationFrame(pend, ref) ==
    IF ref = << >> THEN pend ELSE pend \ {ref[1]}

\* The cleanup returned by an active effect.
EffectCleanup(h) ==
    [h EXCEPT !.pending = cancelAnimationFrame(h.pending, h.requestRef),
              !.previousRef = << >>]

\* The effect body when active is false.
EffectInactive(h) ==
    [h EXCEPT !.pending = cancelAnimationFrame(h.pending, h.requestRef),
              !.previousRef = << >>]

\* The effect body when active is true: schedule the first frame.
EffectActive(h) ==
    LET id == requestAnimationFrame(h.pending, h.requestRef)
    IN  [h EXCEPT !.requestRef = <<id>>, !.pending = h.pending \cup {id}]

\* An effect that only cancels the scheduled frame on deactivation and keeps
\* the time stamp of the last frame.
useAnimationFrameKeepsPrevious(h, wasActive, active) ==
    IF wasActive = active THEN h
    ELSE IF active THEN EffectActive(h)
    ELSE [h EXCEPT !.pending = cancelAnimationFrame(h.pending, h.requestRef)]

\* The effect runs after a render in which `active` changed (the callback is
\* stable): first the cleanup of the previous effect, if it returned one, then
\* the new body.
useAnimationFrame(h, wasActive, active) ==
    IF wasActive = active THEN h
    ELSE IF active THEN EffectActive(h)
    ELSE EffectInactive(EffectCleanup(h))

\* loop(time): the elapsed time handed to the callback, << >> when the loop
\* calls no callback.
LoopDelta(time, prev) ==
    IF prev # << >> THEN <<time - prev[1]>> ELSE << >>

Hook == [requestRef |-> requestRef, previousRef |-> previousRef, pending |-> pending]

----------------------------------------------------------------------------
(* App.tsx: the state and its updaters *)

INITIAL_CAMERA == [offsetX |-> Zero(1), offsetY |-> Zero(1), zoom |-> FromInt(80)]

INITIAL_STATE ==
    [matrix        |-> identityMatrix,
     t             |-> One,
     probeVector   |-> [x |-> One, y |-> One],
     pinnedVectors |-> << >>,
     camera        |-> INITIAL_CAMERA,
     gridMode      |-> "both",
     presetId      |-> "identity",
     isPlaying     |-> FALSE]

\* The state record the updaters work on, from the variables.
AppState ==
    [matrix        |-> matrix,
     t             |-> t,
     probeVector   |-> probeVector,
     pinnedVectors |-> pinnedVectors,
     camera        |-> camera,
     gridMode      |-> gridMode,
     presetId      |-> presetId,
     isPlaying     |-> isPlaying]

\* lastEvent: the handler's name, the pointer position of a pointer or wheel
\* event, the integer of the event (the elapsed time a frame handed to the
\* tick callback, NoValue when it called none, the length of the pin list
\* before it is cut), the deltaY of a wheel event, and the field and the text
\* of a numeric input.
NoPoint == [x |-> 0, y |-> 0]
NoValue == 0 - 1
Event(name, point, value) ==
    [name |-> name, point |-> point, value |-> value, deltaY |-> Zero(1),
     key |-> "", text |-> << >>]
InputEvent(name, key, text) ==
    [Event(name, NoPoint, NoValue) EXCEPT !.key = key, !.text = text]
WheelEvent(point, deltaY) ==
    [Event("wheel", point, NoValue) EXCEPT !.deltaY = deltaY]

\* A queued updater: which arrow function it is, the value it closes over,
\* and as history the event that queued it and lastPointerRef.current then.
Updater(kind, arg, event) ==
    [kind |-> kind, arg |-> arg, event |-> event, last |-> lastPointerRef]

\* const speed = 0.0004
speed == Literal("0.0004")

\* prev.t + delta * speed * directionRef.current
NextT(prevT, direction, delta) ==
    FAdd(prevT, FMul(FMul(FromInt(delta), speed), FromInt(direction)))

\* A tick that reverses at neither end.
AnimationStepOneShot(prevT, direction, delta) ==
    [t |-> clamp(NextT(prevT, direction, delta), Zero(1), One), direction |-> direction]

\* A tick that reverses whenever it is called.
AnimationStepAlwaysFlips(prevT, direction, delta) ==
    [t |-> clamp(NextT(prevT, direction, delta), Zero(1), One), direction |-> 0 - direction]

\* The updater of handleAnimationFrame while playing: the next t and the
\* next directionRef.current.
AnimationStep(prevT, direction, delta) ==
    LET nextT == NextT(prevT, direction, delta)
    IN  IF FLeq(One, nextT) THEN [t |-> One, direction |-> 0 - 1]
        ELSE IF FLeq(nextT, Zero(1)) THEN [t |-> Zero(1), direction |-> 1]
        ELSE [t |-> nextT, direction |-> direction]

\* The updater of handleAnimationFrame: the next state and the next
\* directionRef.current.
TickUpdater(prev, direction, delta) ==
    IF ~prev.isPlaying
    THEN [state |-> prev, direction |-> direction]
    ELSE LET step == AnimationStep(prev.t, direction, delta)
         IN  [state |-> [prev EXCEPT !.t = step.t], direction |-> step.direction]

PlayPauseUpdater(prev) == [prev EXCEPT !.isPlaying = ~prev.isPlaying]

\* A slider change that marks the transformation as custom.
TChangeUpdaterMarksCustom(prev, value) ==
    [prev EXCEPT !.t = clamp(value, Zero(1), One), !.isPlaying = FALSE,
                 !.presetId = "custom"]

\* A slider change that leaves the playing flag alone.
TChangeUpdaterKeepsPlaying(prev, value) ==
    [prev EXCEPT !.t = clamp(value, Zero(1), One)]

\* The updater of handleTChange.
TChangeUpdater(prev, value) ==
    [prev EXCEPT !.t = clamp(value, Zero(1), One), !.isPlaying = FALSE]

PresetUpdater(prev, preset) ==
    [prev EXCEPT !.matrix = preset.matrix, !.presetId = preset.id]

matricesEqual(m1, m2) ==
    FEq(m1.a, m2.a) /\ FEq(m1.b, m2.b) /\ FEq(m1.c, m2.c) /\ FEq(m1.d, m2.d)

MatrixUpdater(prev, newMatrix) ==
    [prev EXCEPT !.matrix = newMatrix,
                 !.presetId = IF matricesEqual(newMatrix, identityMatrix)
                              THEN "identity" ELSE "custom"]

ProbeUpdater(prev, vector) == [prev EXCEPT !.probeVector = vector]

\* A pin list that evicts the newest entry.
LimitPinsKeepOldest(pins) ==
    IF Len(pins) <= 6 THEN pins ELSE SubSeq(pins, 1, 6)

\* [...].slice(-6): the last six entries.
LimitPins(pins) ==
    IF Len(pins) <= 6 THEN pins ELSE SubSeq(pins, Len(pins) - 5, Len(pins))

\* The pinned entry, from a probe vector and an image.
NewPin(probe, image) ==
    [x |-> probe.x, y |-> probe.y, Tx |-> image.x, Ty |-> image.y]

\* The updater of handlePinVector: x and y are those of prev.probeVector, Tx
\* and Ty those of the transformedProbe memo the callback closed over.
PinUpdater(prev, image) ==
    [prev EXCEPT !.pinnedVectors =
                     LimitPins(Append(prev.pinnedVectors,
                                      NewPin(prev.probeVector, image)))]

GridModeUpdater(prev, mode) == [prev EXCEPT !.gridMode = mode]

CameraUpdater(prev, newCamera) == [prev EXCEPT !.camera = newCamera]

ResetCameraUpdater(prev) == [prev EXCEPT !.camera = INITIAL_CAMERA]
\* React runs a queued updater on the state the render has reached.
RunUpdater(prev, direction, u) ==
    IF u.kind = "tick" THEN TickUpdater(prev, direction, u.arg)
    ELSE [direction |-> direction,
          state |->
            CASE u.kind = "playPause"   -> PlayPauseUpdater(prev)
              [] u.kind = "t"           -> TChangeUpdater(prev, u.arg)
              [] u.kind = "preset"      -> PresetUpdater(prev, u.arg)
              [] u.kind = "matrix"      -> MatrixUpdater(prev, u.arg)
              [] u.kind = "probe"       -> ProbeUpdater(prev, u.arg)
              [] u.kind = "pin"         -> PinUpdater(prev, u.arg)
              [] u.kind = "gridMode"    -> GridModeUpdater(prev, u.arg)
              [] u.kind = "camera"      -> CameraUpdater(prev, u.arg)
              [] u.kind = "resetCamera" -> ResetCameraUpdater(prev)]

\* The state and the direction a render of the queue q ends in.
RECURSIVE RunQueue(_, _, _)
RunQueue(prev, direction, q) ==
    IF Len(q) = 0 THEN [state |-> prev, direction |-> direction]
    ELSE LET r == RunUpdater(prev, direction, Head(q))
         IN  RunQueue(r.state, r.direction, Tail(q))

\* setState(updater)
SetState(u) == queue' = Append(queue, u)

\* React takes the oldest queued updater of the render in progress, or
\* starts the render the scheduler owes to the queued updaters.
Rendered(r) ==
    /\ matrix' = r.state.matrix
    /\ t' = r.state.t
    /\ probeVector' = r.state.probeVector
    /\ pinnedVectors' = r.state.pinnedVectors
    /\ camera' = r.state.camera
    /\ gridMode' = r.state.gridMode
    /\ presetId' = r.state.presetId
    /\ isPlaying' = r.state.isPlaying
    /\ directionRef' = r.direction

ProcessUpdate ==
    /\ mounted
    /\ Len(queue) > 0
    /\ Rendered(Call("RunUpdater", <<AppState, directionRef, Head(queue)>>))
    /\ lastUpdate' = Head(queue)
    /\ queue' = Tail(queue)
    /\ rendering' = TRUE
    /\ UNCHANGED <<transformedProbe, effectActive, renderedSince, hookVars, canvasVars,
                   lastEvent>>

\* The render is complete: the component function has run on the new state
\* (the transformedProbe memo), React commits and runs the effect of
\* useAnimationFrame when `active` has changed.
CommitRender ==
    /\ mounted
    /\ rendering
    /\ Len(queue) = 0
    /\ transformedProbe' = Call("multiplyMatrixVector", <<matrix, probeVector>>)
    /\ LET h == useAnimationFrame(Hook, effectActive, isPlaying)
       IN  /\ requestRef' = h.requestRef
           /\ previousRef' = h.previousRef
           /\ pending' = h.pending
    /\ frameSeen' = IF isPlaying /\ ~effectActive THEN FALSE ELSE frameSeen
    /\ effectActive' = isPlaying
    /\ rendering' = FALSE
    /\ renderedSince' = TRUE
    /\ UNCHANGED <<stateVars, directionRef, queue, lastUpdate, mounted, now, canvasVars,
                   lastEvent>>

----------------------------------------------------------------------------
(* App.tsx: the handlers *)

\* A click or a change: the handler has queued an updater, and React renders
\* before the event returns.
Discrete(event) ==
    /\ mounted
    /\ ~rendering
    /\ rendering' = TRUE
    /\ lastEvent' = event
    /\ renderedSince' = FALSE
    /\ UNCHANGED <<appVars, effectActive, lastUpdate, hookVars, canvasVars>>

handlePlayPause ==
    LET event == Event("playPause", NoPoint, NoValue)
    IN  SetState(Updater("playPause", NoValue, event)) /\ Discrete(event)

handleTChange(value, event) ==
    SetState(Updater("t", value, event)) /\ Discrete(event)

handlePresetChange(preset) ==
    LET event == Event("presetChange", NoPoint, NoValue)
    IN  SetState(Updater("preset", preset, event)) /\ Discrete(event)

handleMatrixChange(newMatrix, event) ==
    SetState(Updater("matrix", newMatrix, event))

handleProbeChange(vector, event) ==
    SetState(Updater("probe", vector, event))

handlePinVector ==
    LET event == Event("pinVector", NoPoint, Len(pinnedVectors) + 1)
    IN  SetState(Updater("pin", transformedProbe, event)) /\ Discrete(event)

handleGridModeChange(mode) ==
    LET event == Event("gridModeChange", NoPoint, NoValue)
    IN  SetState(Updater("gridMode", mode, event)) /\ Discrete(event)

handleCameraChange(newCamera, event) ==
    SetState(Updater("camera", newCamera, event))

handleResetCamera ==
    LET event == Event("resetCamera", NoPoint, NoValue)
    IN  SetState(Updater("resetCamera", NoValue, event)) /\ Discrete(event)

\* handleAnimationFrame(delta): the tick queues its updater.
handleAnimationFrame(delta, event) ==
    /\ Len(queue) < MaxQueued
    /\ SetState(Updater("tick", delta, event))

\* The browser reaches the next display refresh, gap ms after the latest one,
\* and runs the scheduled callback: loop(time) of useAnimationFrame.
AnimationFrame(gap) ==
    /\ ~rendering
    /\ pending # {}
    /\ now + gap <= MaxTime
    /\ now' = now + gap
    /\ \E fired \in pending :
         LET delta == LoopDelta(now', previousRef)
             rest  == pending \ {fired}
             id    == requestAnimationFrame(rest, requestRef)
             event == Event("frame", NoPoint,
                            IF delta = << >> THEN NoValue ELSE delta[1])
         IN  /\ IF delta # << >>
                THEN handleAnimationFrame(delta[1], event)
                ELSE UNCHANGED queue
             /\ previousRef' = <<now'>>
             /\ requestRef' = <<id>>
             /\ pending' = rest \cup {id}
             /\ lastEvent' = event
    /\ frameSeen' = TRUE
    /\ renderedSince' = FALSE
    /\ UNCHANGED <<appVars, rendering, effectActive, lastUpdate, mounted, canvasVars>>

\* A display refresh with no callback scheduled: only the clock moves.
Refresh(gap) ==
    /\ ~rendering
    /\ pending = {}
    /\ gap > 0
    /\ now + gap <= MaxTime
    /\ now' = now + gap
    /\ lastEvent' = Event("refresh", NoPoint, NoValue)
    /\ renderedSince' = FALSE
    /\ UNCHANGED <<appVars, queue, rendering, effectActive, lastUpdate, requestRef,
                   previousRef, pending, mounted, frameSeen, canvasVars>>

\* The component is torn down: React drops the queued updaters and runs the
\* cleanup of the latest effect.
Unmount ==
    /\ mounted
    /\ ~rendering
    /\ mounted' = FALSE
    /\ queue' = << >>
    /\ LET h == IF effectActive THEN EffectCleanup(Hook) ELSE Hook
       IN  /\ requestRef' = h.requestRef
           /\ previousRef' = h.previousRef
           /\ pending' = h.pending
    /\ lastEvent' = Event("unmount", NoPoint, NoValue)
    /\ renderedSince' = FALSE
    /\ UNCHANGED <<appVars, rendering, effectActive, lastUpdate, now, frameSeen,
                   canvasVars>>

----------------------------------------------------------------------------
----------------------------------------------------------------------------
(* utils/presets.ts *)

\* rotationPreset(degrees)
rotationPreset(degrees) ==
    LET radians == FDiv(FMul(FromInt(degrees), MathPI), FromInt(180))
        cos     == MathCos(radians)
        sin     == MathSin(radians)
    IN  [id |-> "rotation-" \o ToString(degrees),
         matrix |-> [a |-> cos, b |-> FNeg(sin), c |-> sin, d |-> cos]]

\* shearXPreset(k) and shearYPreset(k), for the k that the literal `text`
\* of the source denotes; the template `${k}` gives that text back.
shearXPreset(text) ==
    [id |-> "shear-x-" \o text,
     matrix |-> [a |-> One, b |-> Literal(text), c |-> Zero(1), d |-> One]]

shearYPreset(text) ==
    [id |-> "shear-y-" \o text,
     matrix |-> [a |-> One, b |-> Zero(1), c |-> Literal(text), d |-> One]]

\* A matrix given by the literals of its entries.
Entries(a, b, c, d) ==
    [a |-> Literal(a), b |-> Literal(b), c |-> Literal(c), d |-> Literal(d)]

\* The presets, in the order of the source.
presets ==
    <<[id |-> "identity",        matrix |-> Entries("1", "0", "0", "1")],
      rotationPreset(15), rotationPreset(30), rotationPreset(45), rotationPreset(60),
      rotationPreset(90), rotationPreset(120), rotationPreset(180),
      [id |-> "scale-x2",        matrix |-> Entries("2", "0", "0", "1")],
      [id |-> "scale-y-half",    matrix |-> Entries("1", "0", "0", "0.5")],
      [id |-> "scale-x2-y-half", matrix |-> Entries("2", "0", "0", "0.5")],
      shearXPreset("0.5"), shearXPreset("1"),
      shearYPreset("0.5"), shearYPreset("1"),
      [id |-> "reflect-x",       matrix |-> Entries("1", "0", "0", "-1")],
      [id |-> "reflect-y",       matrix |-> Entries("-1", "0", "0", "1")],
      [id |-> "reflect-yx",      matrix |-> Entries("0", "1", "1", "0")],
      [id |-> "proj-x",          matrix |-> Entries("1", "0", "0", "0")],
      [id |-> "proj-y",          matrix |-> Entries("0", "0", "0", "1")],
      [id |-> "custom",          matrix |-> Entries("1", "0", "0", "1")]>>

PresetIds == {presets[i].id : i \in 1..Len(presets)}

----------------------------------------------------------------------------
(* components/Sidebar.tsx *)

\* The onChange of the preset list:
\* presets.find((item) => item.id === value) ?? presets.at(-1)
Preset(id) ==
    IF id \in PresetIds
    THEN presets[CHOOSE i \in 1..Len(presets) :
                     /\ presets[i].id = id
                     /\ \A j \in 1..(i - 1) : presets[j].id # id]
    ELSE presets[Len(presets)]

\* A test that only catches NaN: Number.isNaN(value) ? 0 : value
FiniteOrZeroNaNOnly(value) == IF IsNaN(value) THEN Zero(1) ELSE value

\* Number.isFinite(value) ? value : 0
FiniteOrZero(value) == IF Number_isFinite(value) THEN value ELSE Zero(1)

\* handleMatrixInput(key): the text typed into the matrix entry `key`.
handleMatrixInput(key, text) ==
    LET event == InputEvent("matrixInput", key, text)
    IN  /\ key \in {"a", "b", "c", "d"}
        /\ handleMatrixChange([matrix EXCEPT ![key] = FiniteOrZero(parseFloat(text))],
                              event)
        /\ Discrete(event)

\* handleVectorInput(key): the text typed into the probe coordinate `key`.
handleVectorInput(key, text) ==
    LET event == InputEvent("vectorInput", key, text)
    IN  /\ key \in {"x", "y"}
        /\ handleProbeChange([probeVector EXCEPT ![key] = FiniteOrZero(parseFloat(text))],
                             event)
        /\ Discrete(event)

\* The onChange of the t control: the parsed text goes to handleTChange as
\* it is.
handleTInput(text) ==
    handleTChange(parseFloat(text), InputEvent("tChange", "t", text))

\* The Pin button is a click on onPinVector, the play button one on
\* onPlayPause, the Reset view button one on onResetCamera; the preset list
\* hands Preset(value) to onPresetChange.
handlePresetSelect(id) == handlePresetChange(Call("Preset", <<id>>))

----------------------------------------------------------------------------
(* components/CanvasView.tsx *)

MIN_ZOOM == FromInt(20)
MAX_ZOOM == FromInt(400)

\* width / 2 and height / 2, for a size in pixels
Half(size) == FDiv(FromInt(size), Two)

\* Screen coordinates of a world point.
worldToScreen(cam, point, width, height) ==
    [x |-> FAdd(FMul(FSub(point.x, cam.offsetX), cam.zoom), Half(width)),
     y |-> FSub(Half(height), FMul(FSub(point.y, cam.offsetY), cam.zoom))]

\* World coordinates of a screen point given in pixels.
screenToWorld(cam, point, width, height) ==
    [x |-> FAdd(FDiv(FSub(FromInt(point.x), Half(width)), cam.zoom), cam.offsetX),
     y |-> FAdd(FDiv(FNeg(FSub(FromInt(point.y), Half(height))), cam.zoom), cam.offsetY)]

\* One more event is delivered to the canvas.
CanvasEvent ==
    /\ mounted
    /\ ~rendering
    /\ canvasEvents < MaxCanvasEvents
    /\ canvasEvents' = canvasEvents + 1

\* The history of the event a canvas handler has handled.
Delivered(event) ==
    /\ lastEvent' = event
    /\ repeatedEvent' = (event = lastEvent)
    /\ renderedSince' = FALSE

\* Math.hypot(probeTipScreen.x - point.x, probeTipScreen.y - point.y)
TipDistance(cam, probe, point) ==
    LET probeTipScreen == worldToScreen(cam, probe, Viewport.width, Viewport.height)
    IN  MathHypot(FSub(probeTipScreen.x, FromInt(point.x)),
                  FSub(probeTipScreen.y, FromInt(point.y)))

\* A classification with half the radius.
DragModeHalfRadius(cam, probe, point) ==
    IF FLess(TipDistance(cam, probe, point), FromInt(8)) THEN "vector" ELSE "pan"

\* handlePointerDown: the drag mode chosen for a press at point.
DragMode(cam, probe, point) ==
    IF FLess(TipDistance(cam, probe, point), FromInt(16)) THEN "vector" ELSE "pan"

\* handlePointerDown: the handler sets the refs from the camera and the probe
\* vector of the latest render and queues nothing.
handlePointerDown(point) ==
    /\ CanvasEvent
    /\ lastPointerRef' = point
    /\ pointerMovedRef' = FALSE
    /\ dragModeRef' = Call("DragMode", <<camera, probeVector, point>>)
    /\ gestureMoved' = FALSE
    /\ Delivered(Event("pointerDown", point, NoValue))
    /\ UNCHANGED <<appVars, queue, rendering, effectActive, lastUpdate, hookVars>>

\* handlePointerMove, pan branch: the camera moved by dx, dy pixels.
PanCamera(cam, dx, dy) ==
    [offsetX |-> FSub(cam.offsetX, FDiv(FromInt(dx), cam.zoom)),
     offsetY |-> FAdd(cam.offsetY, FDiv(FromInt(dy), cam.zoom)),
     zoom    |-> cam.zoom]

\* A pointer-move that keeps the pointer position recorded before it.
RecordedPointerKept(point, last) == last

\* handlePointerMove: lastPointerRef.current = point
RecordedPointer(point, last) == point

\* handlePointerMove: the handler computes the new probe vector or the new
\* camera from the camera of the latest render and queues it.
handlePointerMove(point) ==
    /\ CanvasEvent
    /\ LET dx    == point.x - lastPointerRef.x
           dy    == point.y - lastPointerRef.y
           event == Event("pointerMove", point, NoValue)
       IN  /\ \/ /\ dragModeRef = "vector"
                 /\ pointerMovedRef' = TRUE
                 /\ Len(queue) < MaxQueued
                 /\ handleProbeChange(Call("screenToWorld",
                                           <<camera, point, Viewport.width,
                                             Viewport.height>>), event)
              \/ /\ dragModeRef = "pan"
                 /\ pointerMovedRef' = TRUE
                 /\ Len(queue) < MaxQueued
                 /\ handleCameraChange(Call("PanCamera", <<camera, dx, dy>>), event)
              \/ /\ dragModeRef = "none"
                 /\ UNCHANGED <<pointerMovedRef, queue>>
           /\ Delivered(event)
    /\ lastPointerRef' = RecordedPointer(point, lastPointerRef)
    /\ gestureMoved' = TRUE
    /\ UNCHANGED <<appVars, rendering, effectActive, lastUpdate, hookVars, dragModeRef>>

\* An end of interaction that relocates the probe after every pan gesture.
RelocatesIgnoringMoved(mode, moved) == mode = "pan"

\* endPointerInteraction: whether the release relocates the probe vector.
Relocates(mode, moved) == mode = "pan" /\ ~moved

\* endPointerInteraction, bound to onPointerUp (a discrete event) and to
\* onPointerLeave (not one).
endPointerInteraction(point, name, discrete) ==
    /\ CanvasEvent
    /\ LET event == Event(name, point, NoValue)
       IN  /\ IF Relocates(dragModeRef, pointerMovedRef)
              THEN /\ discrete \/ Len(queue) < MaxQueued
                   /\ handleProbeChange(Call("screenToWorld",
                                             <<camera, point, Viewport.width,
                                               Viewport.height>>), event)
                   /\ rendering' = discrete
              ELSE UNCHANGED <<queue, rendering>>
           /\ Delivered(event)
    /\ dragModeRef' = "none"
    /\ pointerMovedRef' = FALSE
    /\ UNCHANGED <<appVars, effectActive, lastUpdate, hookVars, lastPointerRef,
                   gestureMoved>>

PointerUp(point) == endPointerInteraction(point, "pointerUp", TRUE)

PointerLeave(point) == endPointerInteraction(point, "pointerLeave", FALSE)

\* Math.exp(-event.deltaY * 0.001)
ZoomFactor(deltaY) == MathExp(FMul(FNeg(deltaY), Literal("0.001")))

\* A wheel handler that does not clamp the zoom.
WheelZoomUnclamped(zoom, deltaY) == FMul(zoom, ZoomFactor(deltaY))

\* handleWheel: the new zoom.
WheelZoom(zoom, deltaY) == clamp(FMul(zoom, ZoomFactor(deltaY)), MIN_ZOOM, MAX_ZOOM)

\* A wheel handler that changes the zoom about the viewport centre.
WheelCameraKeepsOffset(cam, pointer, deltaY) ==
    [cam EXCEPT !.zoom = WheelZoom(cam.zoom, deltaY)]

\* handleWheel: the new camera for a wheel event at pointer.
WheelCamera(cam, pointer, deltaY) ==
    LET newZoom    == WheelZoom(cam.zoom, deltaY)
        beforeZoom == screenToWorld(cam, pointer, Viewport.width, Viewport.height)
        afterZoom  == screenToWorld([cam EXCEPT !.zoom = newZoom], pointer,
                                    Viewport.width, Viewport.height)
    IN  [offsetX |-> FAdd(cam.offsetX, FSub(beforeZoom.x, afterZoom.x)),
         offsetY |-> FAdd(cam.offsetY, FSub(beforeZoom.y, afterZoom.y)),
         zoom    |-> newZoom]

\* handleWheel: the handler computes the new camera from the camera of the
\* latest render and queues it.
handleWheel(pointer, deltaY) ==
    /\ CanvasEvent
    /\ Len(queue) < MaxQueued
    /\ LET event == WheelEvent(pointer, deltaY)
       IN  /\ handleCameraChange(Call("WheelCamera", <<camera, pointer, deltaY>>),
                                 event)
           /\ Delivered(event)
    /\ UNCHANGED <<appVars, rendering, effectActive, lastUpdate, hookVars, dragModeRef,
                   pointerMovedRef, lastPointerRef, gestureMoved>>

----------------------------------------------------------------------------
(* Specifications *)

\* The first render: useState(INITIAL_STATE) and the transformedProbe memo.
FirstRender ==
    [state |-> INITIAL_STATE,
     transformedProbe |-> multiplyMatrixVector(INITIAL_STATE.matrix,
                                               INITIAL_STATE.probeVector)]

Mounted(first) ==
    /\ matrix = first.state.matrix
    /\ t = first.state.t
    /\ probeVector = first.state.probeVector
    /\ pinnedVectors = first.state.pinnedVectors
    /\ camera = first.state.camera
    /\ gridMode = first.state.gridMode
    /\ presetId = first.state.presetId
    /\ isPlaying = first.state.isPlaying
    /\ transformedProbe = first.transformedProbe

Init ==
    /\ Mounted(Call("FirstRender", << >>))
    /\ directionRef = 1
    /\ queue = << >>
    /\ rendering = FALSE
    /\ effectActive = FALSE
    /\ requestRef = << >>
    /\ previousRef = << >>
    /\ pending = {}
    /\ mounted = TRUE
    /\ now = 0
    /\ frameSeen = FALSE
    /\ dragModeRef = "none"
    /\ pointerMovedRef = FALSE
    /\ lastPointerRef = [x |-> 0, y |-> 0]
    /\ gestureMoved = FALSE
    /\ canvasEvents = 0
    /\ repeatedEvent = FALSE
    /\ renderedSince = FALSE
    /\ lastUpdate = [kind |-> "none", arg |-> NoValue,
                     event |-> Event("init", NoPoint, NoValue), last |-> NoPoint]
    /\ lastEvent = Event("init", NoPoint, NoValue)

----------------------------------------------------------------------------
(* The evaluator *)

\* Call(op, arg) is the value of the operator named op at the arguments arg.
\* Its arms are the operators on numbers that apply other operators, each
\* with the definition it has in the source or in the standard, and the
\* functions of the source that the handlers and the renders call.  All of
\* them go through this one recursive operator because TLC's coverage
\* statistics unfold a definition at every place that applies it, except
\* where a recursive operator applies itself.  The arguments are values: the
\* test for the operators without arguments evaluates them before the
\* operator is applied, as a call does in the source.
Call(op, arg) ==
    IF arg = << >>
    THEN CASE op = "FirstRender" -> FirstRender
           [] op = "PresetIds" -> PresetIds
    ELSE
    CASE op = "CarryInto" ->
       (LET a == arg[1]
            b == arg[2]
            c == arg[3]
            i == arg[4]
        IN
            IF \A j \in 1..(i - 1) : Limb(a, j) + Limb(b, j) = Base - 1 THEN c
            ELSE LET d == CHOOSE d \in 1..(i - 1) :
                              /\ Limb(a, i - d) + Limb(b, i - d) # Base - 1
                              /\ \A e \in 1..(d - 1) : Limb(a, i - e) + Limb(b, i - e) = Base - 1
                 IN  IF Limb(a, i - d) + Limb(b, i - d) >= Base THEN 1 ELSE 0)
      [] op = "BigAddC" ->
       (LET a == arg[1]
            b == arg[2]
            c == arg[3]
        IN
            BigNorm(Tuple([i \in 1..((IF Len(a) > Len(b) THEN Len(a) ELSE Len(b)) + 1) |->
                              (Limb(a, i) + Limb(b, i) + CarryInto(a, b, c, i)) % Base])))
      [] op = "BorrowFrom" ->
       (LET a == arg[1]
            b == arg[2]
            i == arg[3]
        IN
            IF \A j \in 1..(i - 1) : Limb(a, j) = Limb(b, j) THEN 0
            ELSE LET d == CHOOSE d \in 1..(i - 1) :
                              /\ Limb(a, i - d) # Limb(b, i - d)
                              /\ \A e \in 1..(d - 1) : Limb(a, i - e) = Limb(b, i - e)
                 IN  IF Limb(a, i - d) < Limb(b, i - d) THEN 1 ELSE 0)
      [] op = "BigSub" ->
       (LET a == arg[1]
            b == arg[2]
        IN
            BigNorm(Tuple([i \in 1..Len(a) |->
                              (a[i] - Limb(b, i) - BorrowFrom(a, b, i)) % Base])))
      [] op = "BigCmp" ->
       (LET a == arg[1]
            b == arg[2]
        IN
            IF Len(a) # Len(b) THEN (IF Len(a) < Len(b) THEN 0 - 1 ELSE 1)
            ELSE IF a = b THEN 0
            ELSE LET i == CHOOSE i \in 1..Len(a) :
                              a[i] # b[i] /\ \A j \in (i + 1)..Len(a) : a[j] = b[j]
                 IN  IF a[i] < b[i] THEN 0 - 1 ELSE 1)
      [] op = "Column" ->
       (LET a == arg[1]
            b == arg[2]
            k == arg[3]
        IN
            Sum([i \in 1..Len(a) |->
                     ((Limb(a, i) * Limb(b, k + 1 - i)) % Base)
                         + ((Limb(a, i) * Limb(b, k - i)) \div Base)]))
      [] op = "BigMul" ->
       (LET a == arg[1]
            b == arg[2]
        IN
            LET cols == Tuple([k \in 1..(Len(a) + Len(b)) |-> Column(a, b, k)])
            IN  BigAdd(BigAdd(Tuple([k \in 1..Len(cols) |-> cols[k] % Base]),
                              <<0>> \o [k \in 1..Len(cols) |-> (cols[k] \div Base) % Base]),
                       <<0, 0>> \o [k \in 1..Len(cols) |-> cols[k] \div (Base * Base)]))
      [] op = "ShiftLeft" ->
       (LET a == arg[1]
            k == arg[2]
        IN
            IF a = << >> THEN a
            ELSE Zeros(k \div LimbBits) \o BigMulSmall(a, 2^(k % LimbBits)))
      [] op = "ShiftRight" ->
       (LET a == arg[1]
            k == arg[2]
        IN
            BigNorm(Tuple([i \in 1..(IF Len(a) > k \div LimbBits THEN Len(a) - (k \div LimbBits) ELSE 0) |->
                              (Limb(a, i + (k \div LimbBits)) \div 2^(k % LimbBits))
                                  + (Limb(a, i + (k \div LimbBits) + 1) % 2^(k % LimbBits))
                                        * 2^(LimbBits - (k % LimbBits))])))
      [] op = "TrailingZeros" ->
       (LET a == arg[1]
        IN
            LET i == CHOOSE i \in 1..Len(a) : a[i] # 0 /\ \A j \in 1..(i - 1) : a[j] = 0
            IN  (LimbBits * (i - 1))
                    + (CHOOSE k \in 0..(LimbBits - 1) : a[i] % 2^k = 0 /\ a[i] % 2^(k + 1) # 0))
      [] op = "DigitOf" ->
       (LET r == arg[1]
            d == arg[2]
        IN
            LET n == Len(d)
                top == (Limb(r, n + 1) * Base) + Limb(r, n)
                g == IF top \div d[n] > Base - 1 THEN Base - 1 ELSE top \div d[n]
            IN  IF BigCmp(BigMulSmall(d, g), r) <= 0 THEN g
                ELSE IF BigCmp(BigMulSmall(d, g - 1), r) <= 0 THEN g - 1 ELSE g - 2)
      [] op = "DivStep" ->
       (LET a == arg[1]
            d == arg[2]
            i == arg[3]
            s == arg[4]
        IN
            IF i < 1 THEN s
            ELSE LET x == BigNorm(<<a[i]>> \o s.r)
                     g == DigitOf(x, d)
                 IN  [q |-> <<g>> \o s.q, r |-> BigSub(x, BigMulSmall(d, g))])
      [] op = "DivSteps" ->
       (LET a == arg[1]
            d == arg[2]
            i == arg[3]
            s == arg[4]
        IN
            LET s1 == DivStep(a, d, i, s)
                s2 == DivStep(a, d, i - 1, s1)
                s3 == DivStep(a, d, i - 2, s2)
                s4 == DivStep(a, d, i - 3, s3)
                s5 == DivStep(a, d, i - 4, s4)
                s6 == DivStep(a, d, i - 5, s5)
                s7 == DivStep(a, d, i - 6, s6)
                s8 == DivStep(a, d, i - 7, s7)
            IN  IF i <= 8 THEN <<s1, s2, s3, s4, s5, s6, s7, s8>>[8]
                ELSE DivSteps(a, d, i - 8, <<s1, s2, s3, s4, s5, s6, s7, s8>>[8]))
      [] op = "BigDivMod" ->
       (LET a == arg[1]
            d == arg[2]
        IN
            LET sh  == LimbBits - IntBits(d[Len(d)])
                dn  == ShiftLeft(d, sh)
                an  == ShiftLeft(a, sh)
                n   == Len(an) - Len(dn) + 1
                res == DivSteps(an, dn, n, [q |-> << >>, r |-> SubSeq(an, n + 1, Len(an))])
            IN  IF n < 1 THEN [q |-> << >>, exact |-> a = << >>]
                ELSE [q |-> BigNorm(res.q), exact |-> res.r = << >>])
      [] op = "BigSqrtUpTo" ->
       (LET a == arg[1]
            r == arg[2]
        IN  IF BigCmp(BigMul(r, r), a) <= 0 THEN r ELSE BigSqrtFrom(a, r))
      [] op = "BigSqrtFrom" ->
       (LET a == arg[1]
            x0 == arg[2]
        IN
            LET x1 == SqrtStep(a, x0)
                x2 == SqrtStep(a, x1)
                x3 == SqrtStep(a, x2)
                x4 == SqrtStep(a, x3)
                x5 == SqrtStep(a, x4)
                x6 == SqrtStep(a, x5)
                x7 == SqrtStep(a, x6)
                x8 == SqrtStep(a, x7)
            IN  BigSqrtUpTo(a, BigLeast(<<x1, x2, x3, x4, x5, x6, x7, x8>>)))
      [] op = "PowStep" ->
       (LET acc == arg[1]
            n == arg[2]
            j == arg[3]
        IN
            IF (n \div 2^(j - 1)) % 2 = 1 THEN BigMul(acc, Pow10Squares[j]) ELSE acc)
      [] op = "BigPow10" ->
       (LET n == arg[1]
        IN
            LET a1  == PowStep(<<1>>, n, 1)
                a2  == PowStep(a1, n, 2)
                a3  == PowStep(a2, n, 3)
                a4  == PowStep(a3, n, 4)
                a5  == PowStep(a4, n, 5)
                a6  == PowStep(a5, n, 6)
                a7  == PowStep(a6, n, 7)
                a8  == PowStep(a7, n, 8)
                a9  == PowStep(a8, n, 9)
                a10 == PowStep(a9, n, 10)
                a11 == PowStep(a10, n, 11)
            IN  IF n < 2048 THEN <<a1, a2, a3, a4, a5, a6, a7, a8, a9, a10, a11>>[11]
                ELSE BigMul(BigPow10(2047), BigPow10(n - 2047)))
      [] op = "Round" ->
       (LET s == arg[1]
            m == arg[2]
            e == arg[3]
            sticky == arg[4]
        IN
            LET len == BitLength(m)
                q   == IF e + len - 53 > 0 - 1074 THEN e + len - 53 ELSE 0 - 1074
                sh  == q - e
                cut == ShiftRight(m, sh)
                up  == /\ TestBit(m, sh - 1) = 1
                       /\ sticky \/ ~LowZero(m, sh - 1) \/ TestBit(cut, 0) = 1
                r   == IF up THEN BigAddC(cut, << >>, 1) ELSE cut
            IN  IF m = << >> THEN Zero(s)
                ELSE IF sh <= 0 THEN (IF e + len > 1024 THEN Inf(s) ELSE Canon(s, m, e))
                ELSE IF r = << >> THEN Zero(s)
                ELSE IF q + BitLength(r) > 1024 THEN Inf(s) ELSE Canon(s, r, q))
      [] op = "FMul" ->
       (LET x == arg[1]
            y == arg[2]
        IN
            IF IsNumber(x) /\ IsNumber(y)
            THEN Round(x.s * y.s, BigMul(x.m, y.m), x.e + y.e, FALSE)
            ELSE IF IsNaN(x) \/ IsNaN(y) \/ (IsZero(x) /\ y.k = "inf") \/ (x.k = "inf" /\ IsZero(y))
            THEN NaN
            ELSE IF x.k = "inf" \/ y.k = "inf" THEN Inf(x.s * y.s) ELSE Zero(x.s * y.s))
      [] op = "AddOrdered" ->
       (LET x == arg[1]
            y == arg[2]
        IN
            LET px == x.e + BitLength(x.m)
                py == y.e + BitLength(y.m)
                e  == IF x.e < y.e THEN x.e ELSE y.e
                a  == ShiftLeft(x.m, x.e - e)
                b  == ShiftLeft(y.m, y.e - e)
                w  == ShiftLeft(x.m, 58 - BitLength(x.m))
            IN  IF px - py > 60
                THEN Round(x.s, IF x.s = y.s THEN w ELSE BigSub(w, <<1>>),
                           x.e - (58 - BitLength(x.m)), TRUE)
                ELSE IF x.s = y.s THEN Round(x.s, BigAdd(a, b), e, FALSE)
                ELSE IF BigCmp(a, b) = 0 THEN Zero(1)
                ELSE IF BigCmp(a, b) > 0 THEN Round(x.s, BigSub(a, b), e, FALSE)
                ELSE Round(y.s, BigSub(b, a), e, FALSE))
      [] op = "FAdd" ->
       (LET x == arg[1]
            y == arg[2]
        IN
            IF IsNumber(x) /\ IsNumber(y)
            THEN IF x.e + BitLength(x.m) >= y.e + BitLength(y.m)
                 THEN AddOrdered(x, y) ELSE AddOrdered(y, x)
            ELSE IF IsNaN(x) \/ IsNaN(y) \/ (x.k = "inf" /\ y.k = "inf" /\ x.s # y.s) THEN NaN
            ELSE IF x.k = "inf" THEN x
            ELSE IF y.k = "inf" THEN y
            ELSE IF IsZero(x) /\ IsZero(y) THEN Zero(IF x.s = y.s THEN x.s ELSE 1)
            ELSE IF IsZero(x) THEN y ELSE x)
      [] op = "FDiv" ->
       (LET x == arg[1]
            y == arg[2]
        IN
            LET sh == 58 + BitLength(y.m) - BitLength(x.m)
                d  == BigDivMod(ShiftLeft(x.m, sh), y.m)
            IN  IF IsNumber(x) /\ IsNumber(y)
                THEN Round(x.s * y.s, d.q, x.e - y.e - sh, ~d.exact)
                ELSE IF IsNaN(x) \/ IsNaN(y) \/ (x.k = "inf" /\ y.k = "inf")
                          \/ (IsZero(x) /\ IsZero(y))
                THEN NaN
                ELSE IF x.k = "inf" \/ IsZero(y) THEN Inf(x.s * y.s) ELSE Zero(x.s * y.s))
      [] op = "MagCmp" ->
       (LET x == arg[1]
            y == arg[2]
        IN
            IF x.k = "inf" \/ y.k = "inf"
            THEN (IF x.k = y.k THEN 0 ELSE IF x.k = "inf" THEN 1 ELSE 0 - 1)
            ELSE IF x.e + BitLength(x.m) # y.e + BitLength(y.m)
            THEN (IF x.e + BitLength(x.m) < y.e + BitLength(y.m) THEN 0 - 1 ELSE 1)
            ELSE BigCmp(ShiftLeft(x.m, x.e - (IF x.e < y.e THEN x.e ELSE y.e)),
                        ShiftLeft(y.m, y.e - (IF x.e < y.e THEN x.e ELSE y.e))))
      [] op = "FCmp" ->
       (LET x == arg[1]
            y == arg[2]
        IN
            IF Sign(x) # Sign(y) THEN (IF Sign(x) < Sign(y) THEN 0 - 1 ELSE 1)
            ELSE IF Sign(x) = 0 THEN 0
            ELSE Sign(x) * MagCmp(x, y))
      [] op = "FromInt" ->
       (LET n == arg[1]
        IN  IF n < 0 THEN Canon(0 - 1, BigOfInt(0 - n), 0) ELSE Canon(1, BigOfInt(n), 0))
      [] op = "Truncate" ->
       (LET x == arg[1]
        IN
            IF x.m = << >> THEN 0
            ELSE x.s * BigToInt(IF x.e >= 0 THEN ShiftLeft(x.m, x.e) ELSE ShiftRight(x.m, 0 - x.e)))
      [] op = "FSqrt" ->
       (LET x == arg[1]
        IN
            LET k == 110 - BitLength(x.m) + ((x.e - (110 - BitLength(x.m))) % 2)
                a == ShiftLeft(x.m, k)
                r == BigSqrt(a)
            IN  IF IsNaN(x) \/ IsZero(x) THEN x
                ELSE IF x.s < 0 THEN NaN
                ELSE IF x.k = "inf" THEN x
                ELSE Round(1, r, (x.e - k) \div 2, BigMul(r, r) # a))
      [] op = "Decimal" ->
       (LET s == arg[1]
            digits == arg[2]
            exponent == arg[3]
        IN
            LET p    == BigPow10(0 - exponent)
                diff == BitLength(digits) - BitLength(p)
                up   == IF diff < 58 THEN 58 - diff ELSE 0
                down == IF diff > 58 THEN diff - 58 ELSE 0
                d    == BigDivMod(ShiftLeft(digits, up), ShiftLeft(p, down))
            IN  IF digits = << >> THEN Zero(s)
                ELSE IF exponent + (3 * (BitLength(digits) - 1)) \div 10 > 309 THEN Inf(s)
                ELSE IF exponent + (31 * BitLength(digits)) \div 100 + 1 < 0 - 324 THEN Zero(s)
                ELSE IF exponent >= 0 THEN Round(s, BigMul(digits, BigPow10(exponent)), 0, FALSE)
                ELSE Round(s, d.q, down - up, ~d.exact))
      [] op = "Occurs" ->
       (LET str == arg[1]
            ch == arg[2]
        IN  \E i \in 1..Len(str) : SubSeq(str, i, i) = ch)
      [] op = "CodeUnit" ->
       (LET ch == arg[1]
        IN
            IF Occurs("0123456789", ch) THEN 47 + IndexIn("0123456789", ch)
            ELSE IF Occurs("ABCDEFGHIJKLMNOPQRSTUVWXYZ", ch)
            THEN 64 + IndexIn("ABCDEFGHIJKLMNOPQRSTUVWXYZ", ch)
            ELSE IF Occurs("abcdefghijklmnopqrstuvwxyz", ch)
            THEN 96 + IndexIn("abcdefghijklmnopqrstuvwxyz", ch)
            ELSE CASE ch = " " -> 32 [] ch = "+" -> 43 [] ch = "-" -> 45 [] ch = "." -> 46)
      [] op = "DigitsValue" ->
       (LET text == arg[1]
            lo == arg[2]
            hi == arg[3]
        IN
            IF hi - lo < 9
            THEN BigOfInt(Sum([i \in 1..(hi - lo + 1) |->
                                   (text[lo + i - 1] - 48) * 10^(hi - lo + 1 - i)]))
            ELSE BigAdd(BigMul(DigitsValue(text, lo, (lo + hi) \div 2),
                               BigPow10(hi - (lo + hi) \div 2)),
                        DigitsValue(text, (lo + hi) \div 2 + 1, hi)))
      [] op = "SignedExponent" ->
       (LET negative == arg[1]
            expDigits == arg[2]
        IN
            LET expValue == IF BitLength(expDigits) > 17 \/ BigToInt(expDigits) > ExponentCap
                            THEN ExponentCap ELSE BigToInt(expDigits)
            IN  IF negative THEN 0 - expValue ELSE expValue)
      [] op = "ExponentOf" ->
       (LET afterE == arg[1]
        IN
            LET expSigned == Len(afterE) > 0 /\ Head(afterE) \in {43, 45}
                expText   == IF expSigned THEN Tail(afterE) ELSE afterE
            IN  SignedExponent(expSigned /\ Head(afterE) = 45,
                               DigitsValue(expText, 1, Leading(expText, DecimalDigits))))
      [] op = "ParseExponent" ->
       (LET sign == arg[1]
            wholeDigits == arg[2]
            whole == arg[3]
            frac == arg[4]
            rest == arg[5]
        IN
            LET digits    == wholeDigits \o SubSeq(rest, 1, frac)
                afterFrac == Drop(rest, frac)
                hasE      == Len(afterFrac) > 0 /\ Head(afterFrac) \in {101, 69}
            IN  IF whole = 0 /\ frac = 0 THEN NaN
                ELSE Decimal(sign, DigitsValue(digits, 1, Len(digits)),
                             ExponentOf(IF hasE THEN Tail(afterFrac) ELSE << >>) - frac))
      [] op = "ParseWhole" ->
       (LET sign == arg[1]
            body == arg[2]
            whole == arg[3]
        IN
            ParseFraction(sign, SubSeq(body, 1, whole), whole, Drop(body, whole)))
      [] op = "ParseBody" ->
       (LET sign == arg[1]
            body == arg[2]
        IN
            IF StartsWith(body, InfinityText) THEN Inf(sign)
            ELSE ParseWhole(sign, body, Leading(body, DecimalDigits)))
      [] op = "parseFloat" ->
       (LET text == arg[1]
        IN  ParseSigned(TrimStart(text)))
      [] op = "HighWord" ->
       (LET x == arg[1]
        IN
            LET len == BitLength(x.m)
                p   == x.e + len - 1
            IN  IF x.k = "nan" THEN 2146959360
                ELSE IF x.k = "inf" THEN 2146435072
                ELSE IF x.m = << >> THEN 0
                ELSE IF p >= 0 - 1022
                THEN ((p + 1023) * 2^20)
                         + BigToInt(IF len >= 21 THEN ShiftRight(x.m, len - 21)
                                    ELSE ShiftLeft(x.m, 21 - len)) - 2^20
                ELSE BigToInt(ShiftRight(ShiftLeft(x.m, x.e + 1074), 32)))
      [] op = "ReducedTimes" ->
       (LET x == arg[1]
            k == arg[2]
            tk == arg[3]
        IN  Reduced(k, FSub(x, FMul(tk, ln2HI[1])), FMul(tk, ln2LO[1])))
      [] op = "ExpReduce" ->
       (LET x == arg[1]
            hx == arg[2]
            xsb == arg[3]
        IN
            IF hx <= \h3fd62e42 THEN [k |-> 0, hi |-> Zero(1), lo |-> Zero(1), x |-> x]
            ELSE IF hx < \h3FF0A2B2
            THEN Reduced(1 - xsb - xsb, FSub(x, ln2HI[xsb + 1]), ln2LO[xsb + 1])
            ELSE ReducedBy(x, Truncate(FAdd(FMul(invln2, x), halF[xsb + 1]))))
      [] op = "ExpPoly" ->
       (LET x == arg[1]
            xx == arg[2]
        IN
            FSub(x, FMul(xx, FAdd(P1, FMul(xx, FAdd(P2, FMul(xx, FAdd(P3,
                         FMul(xx, FAdd(P4, FMul(xx, P5)))))))))))
      [] op = "ExpScale" ->
       (LET k == arg[1]
            y == arg[2]
        IN
            IF k >= 0 - 1021
            THEN (IF k = 1024 THEN FMul(FMul(y, Two), two1023)
                  ELSE FMul(y, [k |-> "fin", s |-> 1, m |-> <<1>>, e |-> k]))
            ELSE FMul(FMul(y, [k |-> "fin", s |-> 1, m |-> <<1>>, e |-> k + 1000]), twom1000))
      [] op = "ExpResult" ->
       (LET r == arg[1]
            c == arg[2]
            xc == arg[3]
        IN
            IF r.k = 0 THEN FSub(One, FSub(FDiv(xc, FSub(c, Two)), r.x))
            ELSE ExpScale(r.k, FSub(One, FSub(FSub(r.lo, FDiv(xc, FSub(Two, c))), r.hi))))
      [] op = "ExpOf" ->
       (LET x == arg[1]
            hx == arg[2]
            xsb == arg[3]
        IN
            IF hx >= \h7ff00000
            THEN (IF IsNaN(x) THEN NaN ELSE IF xsb = 0 THEN x ELSE Zero(1))
            ELSE IF hx >= \h40862E42 /\ FGreater(x, o_threshold) THEN FMul(huge, huge)
            ELSE IF hx >= \h40862E42 /\ FLess(x, u_threshold) THEN FMul(twom1000, twom1000)
            ELSE IF hx > \h3fd62e42 /\ hx < \h3FF0A2B2 /\ FEq(x, One) THEN E
            ELSE IF hx <= \h3fd62e42 /\ hx < \h3e300000 /\ FGreater(FAdd(huge, x), One)
            THEN FAdd(One, x)
            ELSE ExpKernel(ExpReduce(x, hx, xsb)))
      [] op = "HypotMax" ->
       (LET x == arg[1]
            y == arg[2]
        IN
            IF IsNaN(y) THEN (IF IsNaN(x) THEN Zero(1) ELSE FAbs(x))
            ELSE IF IsNaN(x) THEN FAbs(y)
            ELSE IF FGreater(FAbs(y), FAbs(x)) THEN FAbs(y) ELSE FAbs(x))
      [] op = "HypotScaled" ->
       (LET x == arg[1]
            y == arg[2]
            max == arg[3]
        IN
            IF max.k = "inf" THEN Inf(1)
            ELSE IF IsNaN(x) \/ IsNaN(y) THEN NaN
            ELSE IF IsZero(max) THEN Zero(1)
            ELSE FMul(FSqrt(KahanStep(KahanStep([sum |-> Zero(1), compensation |-> Zero(1)],
                                                FDiv(FAbs(x), max)),
                                      FDiv(FAbs(y), max)).sum),
                      max))
      [] op = "MathCos" ->
       (LET x == arg[1]
        IN  (CHOOSE row \in TrigTable : row.x = x).cos)
      [] op = "MathSin" ->
       (LET x == arg[1]
        IN  (CHOOSE row \in TrigTable : row.x = x).sin)
      [] op = "RunUpdater" -> RunUpdater(arg[1], arg[2], arg[3])
      [] op = "multiplyMatrixVector" -> multiplyMatrixVector(arg[1], arg[2])
      [] op = "Preset" -> Preset(arg[1])
      [] op = "DragMode" -> DragMode(arg[1], arg[2], arg[3])
      [] op = "screenToWorld" -> screenToWorld(arg[1], arg[2], arg[3], arg[4])
      [] op = "PanCamera" -> PanCamera(arg[1], arg[2], arg[3])
      [] op = "WheelCamera" -> WheelCamera(arg[1], arg[2], arg[3])

\* Texts the t control hands over: -0.2, 0, 0.5, 1 and 1.2.
SliderTexts == {Text("-0.2"), Text("0"), Text("0.5"), Text("1"), Text("1.2")}

\* The animation: the play button, the slider, the frame driver, teardown.
NextAnim ==
    \/ handlePlayPause
    \/ \E text \in SliderTexts : handleTInput(text)
    \/ \E gap \in FrameGaps : AnimationFrame(gap)
    \/ \E gap \in FrameGaps : Refresh(gap)
    \/ Unmount
    \/ ProcessUpdate
    \/ CommitRender

SpecAnim == Init /\ [][NextAnim]_vars

\* Pointer positions relative to the canvas, in pixels: the centre, the tip of
\* the initial probe vector, and the point 16 pixels to the right of that tip.
ScreenPoints == {[x |-> 400, y |-> 300], [x |-> 480, y |-> 220], [x |-> 496, y |-> 220]}

\* The deltaY of a wheel event: a notch of a mouse wheel towards the user, and
\* deltas that take the initial zoom beyond MAX_ZOOM and below MIN_ZOOM.
WheelDeltas == {100, 0 - 2000, 2000}

\* Pointer position of the wheel events: 96 pixels right of the viewport
\* centre and 80 above it.
WheelPoints == {[x |-> 496, y |-> 220]}

\* The canvas: the pointer and wheel controller and the camera reset.
NextCanvas ==
    \/ \E point \in ScreenPoints : handlePointerDown(point)
    \/ \E point \in ScreenPoints : handlePointerMove(point)
    \/ \E point \in ScreenPoints : PointerUp(point)
    \/ \E point \in ScreenPoints : PointerLeave(point)
    \/ \E point \in WheelPoints, deltaY \in WheelDeltas :
           handleWheel(point, FromInt(deltaY))
    \/ handleResetCamera
    \/ ProcessUpdate
    \/ CommitRender

SpecCanvas == Init /\ [][NextCanvas]_vars

\* The pin list: the probe's x input and the pin button.
NextPins ==
    \/ \E text \in {Text("1"), Text("2"), << >>} : handleVectorInput("x", text)
    \/ handlePinVector
    \/ ProcessUpdate
    \/ CommitRender

SpecPins == Init /\ [][NextPins]_vars

\* Number of pins in the specifications that are not about the length of the
\* pin list.
MaxPins == 1

\* A click on the Pin button while the list is short.
PinClick == Len(pinnedVectors) < MaxPins /\ handlePinVector

\* A click on the play button while the animation is paused.
PlayClick == ~isPlaying /\ handlePlayPause

\* Number of canvas events in the specifications that are not about the
\* canvas.
MaxSideEvents == 2

\* Pins against every change of what they are computed from: a drag of the
\* probe vector from its tip to the viewport centre, the probe's y input, the
\* matrix entry b, the identity preset, the animation (two frames, one tick,
\* fit into the clock's range).
NextSnapshot ==
    \/ canvasEvents < MaxSideEvents /\ handlePointerDown([x |-> 480, y |-> 220])
    \/ canvasEvents < MaxSideEvents /\ handlePointerMove([x |-> 400, y |-> 300])
    \/ handleVectorInput("y", Text("0"))
    \/ handleMatrixInput("b", Text("1"))
    \/ handlePresetSelect("identity")
    \/ PinClick
    \/ PlayClick
    \/ AnimationFrame(MaxTime \div 2)
    \/ ProcessUpdate
    \/ CommitRender

SpecSnapshot == Init /\ [][NextSnapshot]_vars

\* Text the t control hands over in the specification of the numeric inputs:
\* a range input with min 0, max 1 and step 0.01 hands over the text of a
\* multiple of the step within the range.
RangeTexts == {Text("0.37")}

\* The numeric inputs of the sidebar: the four matrix entries, the two probe
\* coordinates and the t control.  The texts of the entries and the
\* coordinates: a number that is no multiple of a power of two, a number
\* with an exponent, exponents beyond the range of the doubles, a large
\* number, a number after white space (NBSP, ZWNBSP, VT, EM SPACE, LS), the
\* empty text, a text that is no number, and the infinities.
NextInputs ==
    \/ \E text \in {Text("0.37"), Text("abc")} : handleMatrixInput("a", text)
    \/ \E text \in {Text("1e7"), << >>} : handleMatrixInput("b", text)
    \/ \E text \in {Text("Infinity"), Text("1e1000")} : handleMatrixInput("c", text)
    \/ \E text \in {<<160, 65279, 11, 8195, 8232>> \o Text("1"), Text("-Infinity")} :
           handleMatrixInput("d", text)
    \/ handleVectorInput("x", Text("1e-1000"))
    \/ handleVectorInput("y", Text("-1250000"))
    \/ \E text \in RangeTexts : handleTInput(text)
    \/ ProcessUpdate
    \/ CommitRender

SpecInputs == Init /\ [][NextInputs]_vars

\* The transformed probe: the probe's coordinate inputs, the matrix entry
\* inputs and the preset list, with a value that is no id of a preset.
NextProbe ==
    \/ \E text \in {Text("2"), Text("5")} : handleVectorInput("x", text)
    \/ \E text \in {Text("3"), Text("7")} : handleVectorInput("y", text)
    \/ handleMatrixInput("b", Text("1"))
    \/ handleMatrixInput("d", Text("0"))
    \/ \E id \in Call("PresetIds", << >>) \cup {"unknown"} : handlePresetSelect(id)
    \/ ProcessUpdate
    \/ CommitRender

SpecProbe == Init /\ [][NextProbe]_vars

\* Number of wheel events in the specification of the controls.
MaxWheelEvents == 1

\* The controls around the animation: the play button, the slider and the
\* frame driver (three frames, two ticks, fit into the clock's range), with
\* the events that change what a change of t must leave alone: a preset, the
\* grid mode, the pin button and a wheel notch at the viewport centre.
NextControls ==
    \/ handlePlayPause
    \/ handleTInput(Text("0.5"))
    \/ AnimationFrame(MaxTime \div 3)
    \/ handlePresetSelect("reflect-yx")
    \/ handleGridModeChange("transformed")
    \/ PinClick
    \/ /\ canvasEvents < MaxWheelEvents
       /\ handleWheel([x |-> Viewport.width \div 2, y |-> Viewport.height \div 2],
                      FromInt(0 - 100))
    \/ ProcessUpdate
    \/ CommitRender

SpecControls == Init /\ [][NextControls]_vars

\* React works on the queue of a mounted component: the step that takes the
\* oldest updater off the queue.  In the animation these are the steps of
\* ProcessUpdate, which is enabled exactly where this step is.
TakesUpdate ==
    /\ mounted
    /\ Len(queue) > 0
    /\ queue' = Tail(queue)
    /\ mounted' = TRUE

\* React completes the render in progress.  In the animation these are the
\* steps of CommitRender, which is enabled exactly where this step is.
CompletesRender ==
    /\ mounted
    /\ rendering
    /\ Len(queue) = 0
    /\ rendering' = FALSE

\* The animation with the scheduling the browser and React guarantee: a
\* render that is owed or in progress is carried out, and display refreshes
\* keep coming while the clock can advance, each running the scheduled frame
\* callback.
LiveAnim ==
    /\ SpecAnim
    /\ WF_queue(TakesUpdate)
    /\ WF_rendering(CompletesRender)
    /\ SF_vars(\E gap \in FrameGaps \ {0} : AnimationFrame(gap))
----------------------------------------------------------------------------
(* Steps and states the properties speak about *)

\* The step runs the oldest queued updater, which is of the given kind.
Applies(kind) == Len(queue') < Len(queue) /\ mounted' /\ Head(queue).kind = kind

\* The step is the handler of the event of the given name.
Handles(name) == ~rendering /\ Len(queue') >= Len(queue) /\ lastEvent'.name = name

\* The step has queued an updater of the given kind: Queued.
Queues(kind) == Len(queue') = Len(queue) + 1 /\ queue'[Len(queue')].kind = kind
Queued == queue'[Len(queue')]

\* The state in which the render of the queued updaters ends.
PendingState == RunQueue(AppState, directionRef, queue).state

Stopped == ~isPlaying \/ ~mounted

\* A vector and a matrix given by the decimal texts of their entries.
Vector(x, y) == [x |-> Literal(x), y |-> Literal(y)]

----------------------------------------------------------------------------
(* Properties of the animation *)

\* Clock time that suffices for one sweep: the frame that starts the period
\* and the ticks of the sweep.
SweepBudget == 3 * MaxGap

\* C1: t is within [0, 1] in every reachable state, whatever values the slider
\* hands over and however far a tick overshoots.
C1_TInUnitInterval == FLeq(Zero(1), t) /\ FLeq(t, One)

\* C1 witness: the slider handed over a value above 1 and t is 1.
C1_Witness == lastUpdate.kind = "t" /\ FLess(One, lastUpdate.arg) /\ t = One

\* C2: the direction is +1 or -1 and changes only when the updater of a tick
\* runs and leaves t at 1 (the direction becomes -1) or at 0 (the direction
\* becomes +1).
C2_DirectionFlipsOnlyAtBounds ==
    /\ [](directionRef \in {1, -1})
    /\ [][directionRef' # directionRef =>
             /\ Applies("tick")
             /\ \/ FEq(t', One) /\ directionRef' = -1
                \/ FEq(t', Zero(1)) /\ directionRef' = 1]_vars

\* C2 witness: a tick has left t at 1 and the direction at -1.
C2_Witness == lastUpdate.kind = "tick" /\ t = One /\ directionRef = -1

\* C3: while playing, a tick with positive elapsed time moves t up when the
\* direction is +1 and down when it is -1, stopping only at the bound, where
\* the direction reverses; a tick never stops the playback; and from t = 0
\* with direction +1 the sweep reaches t = 1 with direction -1, and from
\* there t = 0 with direction +1 again, unless the playback is stopped.
C3_PingPong ==
    /\ [][(Applies("tick") /\ Head(queue).arg > 0 /\ isPlaying) =>
             /\ isPlaying'
             /\ directionRef = 1 =>
                    (FLess(t, t') \/ (FEq(t', One) /\ directionRef' = -1))
             /\ directionRef = -1 =>
                    (FLess(t', t) \/ (FEq(t', Zero(1)) /\ directionRef' = 1))]_vars
    /\ (~Stopped /\ FEq(t, Zero(1)) /\ directionRef = 1 /\ now + SweepBudget <= MaxTime)
           ~> ((FEq(t, One) /\ directionRef = -1) \/ Stopped)
    /\ (~Stopped /\ FEq(t, One) /\ directionRef = -1 /\ now + SweepBudget <= MaxTime)
           ~> ((FEq(t, Zero(1)) /\ directionRef = 1) \/ Stopped)

\* C3 witness: the sweep has turned at 1 and a tick has brought t back to 0.
C3_Witness ==
    /\ lastUpdate.kind = "tick" /\ lastUpdate.arg > 0
    /\ isPlaying /\ FEq(t, Zero(1)) /\ directionRef = 1 /\ now >= 4 * MaxGap

\* C4: the first frame of an active period hands no elapsed time to the tick
\* callback, and every later frame of the period hands over the time since the
\* frame before it: the difference of two consecutive frame time stamps.
C4_NoJumpOnResume ==
    [][Handles("frame") =>
          /\ lastEvent'.value = IF frameSeen THEN now' - now ELSE NoValue
          /\ IF frameSeen
             THEN Queues("tick") /\ Queued.arg = now' - now
             ELSE Len(queue') = Len(queue)]_vars

\* C4 witness: the first frame of a later active period (the direction is -1,
\* so an earlier period ticked) has run without a tick.
C4_Witness ==
    /\ lastEvent.name = "frame" /\ lastEvent.value = NoValue
    /\ directionRef = -1 /\ now > 0

\* C5: at most one frame callback is scheduled; once the render that clears
\* the playing flag is committed, or the component is torn down, none is
\* scheduled and no tick waits in the queue; and while the playing flag is
\* clear no tick changes t.
C5_NoLeakedTick ==
    /\ [](Cardinality(pending) <= 1)
    /\ []((Stopped /\ ~rendering) =>
             /\ pending = {}
             /\ \A i \in 1..Len(queue) : queue[i].kind # "tick")
    /\ [][(~isPlaying /\ Applies("tick")) => t' = t]_vars
    /\ [][(~isPlaying /\ t' # t) => Applies("t")]_vars

\* C5 witness: the pause button has cleared the playing flag of a period in
\* which frames had run, the render is committed and nothing is scheduled.
C5_Witness ==
    /\ lastEvent.name = "playPause" /\ ~isPlaying /\ ~rendering /\ frameSeen
    /\ requestRef # << >> /\ pending = {}

----------------------------------------------------------------------------
(* Properties of the camera and the pointer controller *)

\* C6: the camera zoom is within [MIN_ZOOM, MAX_ZOOM] = [20, 400] in every
\* reachable state, whatever wheel, pan, drag and reset events arrive, and so
\* is the zoom of every camera that waits in the queue.
C6_ZoomInBounds ==
    /\ FLeq(FromInt(20), camera.zoom) /\ FLeq(camera.zoom, FromInt(400))
    /\ \A i \in 1..Len(queue) :
           queue[i].kind = "camera" =>
               /\ FLeq(FromInt(20), queue[i].arg.zoom)
               /\ FLeq(queue[i].arg.zoom, FromInt(400))

\* C6 witness: the first event is a wheel event that would shrink the initial
\* zoom 80 to 80 / e^2, about 10.8, and the zoom is 20.
C6_Witness ==
    /\ lastUpdate.kind = "camera" /\ lastUpdate.event.name = "wheel"
    /\ lastUpdate.event.deltaY = Literal("2000") /\ canvasEvents = 1
    /\ camera.zoom = FromInt(20)

\* The pointer is closer than 16 pixels to the screen position of the probe
\* vector's tip under the camera.
NearProbeTip(point) ==
    LET tipX == FAdd(FMul(FSub(probeVector.x, camera.offsetX), camera.zoom),
                     FromInt(Viewport.width \div 2))
        tipY == FSub(FromInt(Viewport.height \div 2),
                     FMul(FSub(probeVector.y, camera.offsetY), camera.zoom))
    IN  FLess(MathHypot(FSub(tipX, FromInt(point.x)), FSub(tipY, FromInt(point.y))),
              FromInt(16))

\* C9: a pointer-down enters draggingVector when the pointer is closer than 16
\* pixels to the probe tip's position on the screen, which is its position
\* under the camera of the latest render, and panning otherwise; it records
\* the press point and clears the moved flag, whatever the controller state
\* was, and changes nothing else.
C9_PointerDownClassifies ==
    [][Handles("pointerDown") =>
          /\ dragModeRef' = IF NearProbeTip(lastEvent'.point) THEN "vector" ELSE "pan"
          /\ lastPointerRef' = lastEvent'.point
          /\ pointerMovedRef' = FALSE
          /\ Len(queue') = Len(queue)]_vars

\* C9 witness: the probe vector was dragged from its tip to the viewport
\* centre, and a press there during that moved gesture has started a drag of
\* the vector again with the moved flag cleared.
C9_Witness ==
    /\ lastEvent.name = "pointerDown" /\ dragModeRef = "vector" /\ ~pointerMovedRef
    /\ lastEvent.point = [x |-> 400, y |-> 300]
    /\ probeVector # INITIAL_STATE.probeVector /\ Len(queue) = 0 /\ ~rendering
    /\ canvasEvents = 3

\* C10: a pointer-up or pointer-leave returns the controller to idle; it moves
\* the probe vector to the world position of the pointer (under the camera on
\* the screen) when the controller was panning and no pointer-move arrived
\* since the pointer-down, and queues nothing in every other case; the probe
\* vector becomes the queued position when the updater runs.
C10_ReleaseRelocatesOnPlainClick ==
    /\ [][(Handles("pointerUp") \/ Handles("pointerLeave")) =>
             /\ dragModeRef' = "none"
             /\ IF dragModeRef = "pan" /\ ~gestureMoved
                THEN /\ Queues("probe")
                     /\ Queued.arg = screenToWorld(camera, lastEvent'.point,
                                                   Viewport.width, Viewport.height)
                ELSE Len(queue') = Len(queue)]_vars
    /\ [][Applies("probe") => probeVector' = Head(queue).arg]_vars

\* C10 witness: a press away from the tip and a release with no move between
\* them have moved the probe vector to the clicked world position.
C10_Witness ==
    /\ lastUpdate.kind = "probe" /\ lastUpdate.event.name = "pointerUp"
    /\ lastEvent.name = "pointerUp" /\ canvasEvents = 2 /\ dragModeRef = "none"
    /\ probeVector # INITIAL_STATE.probeVector
    /\ probeVector = screenToWorld(camera, lastEvent.point, Viewport.width,
                                   Viewport.height)

----------------------------------------------------------------------------
(* Properties of the pin list *)

\* The entries of `before` that remain in `after` when one entry was appended
\* and the list was cut to `after`'s length kept their order and content.
KeptInOrder(before, after) ==
    \A i \in 1..(Len(after) - 1) :
        after[i] = before[i + (Len(before) + 1 - Len(after))]

\* C7: the pin list never holds more than 6 entries; a pin appends one entry
\* and, when that makes 7, drops the first (oldest) one, keeping the others in
\* order; nothing else changes the list.  So after n pins the list holds the
\* last min(n, 6) pinned vectors in pin order.
C7_PinListCappedOldestFirst ==
    /\ [](Len(pinnedVectors) <= 6)
    /\ [][IF Applies("pin")
          THEN /\ Len(pinnedVectors') =
                      IF Len(pinnedVectors) + 1 < 6 THEN Len(pinnedVectors) + 1 ELSE 6
               /\ KeptInOrder(pinnedVectors, pinnedVectors')
          ELSE pinnedVectors' = pinnedVectors]_vars

\* C7 witness: a seventh entry was pinned onto a full list, which holds 6.
C7_Witness ==
    lastUpdate.kind = "pin" /\ lastUpdate.event.value = 7 /\ Len(pinnedVectors) = 6

\* C8: the entry a pin appends is the probe vector with its image under the
\* matrix, both as stored in the state when the pin is made; every entry that
\* stays in the list stays as it is, and nothing else touches the list.
C8_PinIsSnapshot ==
    [][IF Applies("pin")
       THEN /\ pinnedVectors' # << >>
            /\ pinnedVectors'[Len(pinnedVectors')] =
                  [x  |-> probeVector.x,
                   y  |-> probeVector.y,
                   Tx |-> FAdd(FMul(matrix.a, probeVector.x),
                               FMul(matrix.b, probeVector.y)),
                   Ty |-> FAdd(FMul(matrix.c, probeVector.x),
                               FMul(matrix.d, probeVector.y))]
            /\ KeptInOrder(pinnedVectors, pinnedVectors')
       ELSE pinnedVectors' = pinnedVectors]_vars

----------------------------------------------------------------------------
(* Properties of the wheel handler *)

\* The world point under the cursor of the step's event, before and after.
CursorBefore ==
    screenToWorld(camera, lastEvent'.point, Viewport.width, Viewport.height)
CursorAfter ==
    screenToWorld(Queued.arg, lastEvent'.point, Viewport.width, Viewport.height)

\* C11, as stated: the camera the wheel handler queues shows under the cursor
\* exactly the world point that is under the cursor on the screen.
C11_ZoomToCursorExact ==
    [][Handles("wheel") => Queues("camera") /\ CursorAfter = CursorBefore]_vars

\* 2^-49: eight units in the last place of a double near 1.
RoundingSlack == Canon(1, <<1>>, 0 - 49)

\* The coordinate `after` differs from `before` by no more than the roundings
\* of the wheel handler's sums allow: RoundingSlack times the sum of the
\* magnitudes of the terms, which are the cursor's distance from the viewport
\* centre over the old zoom and over the new zoom, and the camera offset.
SameUpToRounding(after, before, pixels, zoom, newZoom, offset) ==
    FLeq(FAbs(FSub(after, before)),
         FMul(RoundingSlack,
              FAdd(FAdd(FAbs(FDiv(pixels, zoom)), FAbs(FDiv(pixels, newZoom))),
                   FAbs(offset))))

\* C11, amended: the camera the wheel handler queues shows under the cursor
\* the world point that is under the cursor on the screen (under the camera
\* of the latest render) up to the rounding of the doubles: each coordinate
\* of screenToWorld of the cursor position differs between the two cameras by
\* at most 2^-49 times the sum of the magnitudes of the terms it is computed
\* from, also when the new zoom was clamped to a bound; and the camera
\* becomes the queued one when the updater runs.
C11_ZoomToCursor ==
    /\ [][Handles("wheel") =>
             /\ Queues("camera")
             /\ SameUpToRounding(CursorAfter.x, CursorBefore.x,
                                 FSub(FromInt(lastEvent'.point.x), Half(Viewport.width)),
                                 camera.zoom, Queued.arg.zoom, camera.offsetX)
             /\ SameUpToRounding(CursorAfter.y, CursorBefore.y,
                                 FSub(FromInt(lastEvent'.point.y), Half(Viewport.height)),
                                 camera.zoom, Queued.arg.zoom, camera.offsetY)]_vars
    /\ [][Applies("camera") => camera' = Head(queue).arg]_vars

\* C11 witness: a wheel event 96 pixels to the right of the viewport centre
\* asked for a zoom below MIN_ZOOM; the zoom was clamped, the camera offset
\* has moved, and the world point under the cursor is 1.2000000000000002
\* where it was 1.2.
C11_Witness ==
    /\ lastUpdate.kind = "camera" /\ lastUpdate.event.name = "wheel"
    /\ lastUpdate.event.deltaY = Literal("2000")
    /\ lastUpdate.event.point = [x |-> 496, y |-> 220]
    /\ camera = lastUpdate.arg /\ camera.zoom = MIN_ZOOM
    /\ camera.offsetX = Literal("-3.5999999999999996")
    /\ screenToWorld(camera, lastUpdate.event.point, Viewport.width,
                     Viewport.height) = Vector("1.2000000000000002", "1")
    /\ canvasEvents = 1 /\ ~rendering

----------------------------------------------------------------------------
(* Properties of repeated events *)

\* What the pointer and wheel handlers act on: the controller's mode, the
\* moved flag, and the probe vector and the camera of the state in which the
\* render of what they have queued ends.
ControllerState ==
    <<dragModeRef, pointerMovedRef, PendingState.probeVector, PendingState.camera>>

\* The step delivers to the canvas the event that was delivered just before.
RepeatsEvent(names) ==
    /\ ~rendering
    /\ Len(queue') >= Len(queue)
    /\ lastEvent'.name \in names
    /\ lastEvent' = lastEvent

\* C12: delivering a pointer-down, pointer-move, pointer-up or wheel event a
\* second time in a row leaves the mode, the moved flag, the probe vector and
\* the camera as the first delivery left them.
C12_EveryHandlerIdempotent ==
    [][RepeatsEvent({"pointerDown", "pointerMove", "pointerUp", "wheel"}) =>
          ControllerState' = ControllerState]_vars

----------------------------------------------------------------------------
(* Properties of the numeric inputs *)

\* The text does not parse to a finite number.
Malformed(text) == ~Number_isFinite(parseFloat(text))

\* C13: an input whose text does not parse to a finite number stores 0 in the
\* field it edits, for the four matrix entries and the two probe coordinates,
\* and the other fields of the edited value are unchanged; the t control, a
\* range input, hands over the text of a finite number; and no field ever
\* holds a non-finite value.
C13_MalformedInputIsZero ==
    /\ [](/\ Number_isFinite(t)
          /\ \A key \in {"a", "b", "c", "d"} : Number_isFinite(matrix[key])
          /\ \A key \in {"x", "y"} : Number_isFinite(probeVector[key]))
    /\ [][(Applies("matrix") /\ Malformed(Head(queue).event.text)) =>
             matrix' = [matrix EXCEPT ![Head(queue).event.key] = Zero(1)]]_vars
    /\ [][(Applies("probe") /\ Malformed(Head(queue).event.text)) =>
             probeVector' = [probeVector EXCEPT ![Head(queue).event.key] = Zero(1)]]_vars
    /\ [][Applies("t") =>
             ~Malformed(Head(queue).event.text) /\ Number_isFinite(t')]_vars

\* C13 witness: the text Infinity was typed into the matrix entry c: the entry
\* holds 0, and the entry a still holds the 0.37 typed before.
C13_Witness ==
    /\ lastUpdate.kind = "matrix" /\ lastUpdate.event.key = "c"
    /\ lastUpdate.event.text = InfinityText
    /\ matrix.c = Zero(1) /\ matrix.a = Literal("0.37") /\ presetId = "custom"
    /\ ~rendering

----------------------------------------------------------------------------
(* Properties of the matrix-vector product *)

\* C14: the transformed probe the application shows (the one of the latest
\* render) is (a*x + b*y, c*x + d*y) for the matrix (a, b, c, d) and the
\* probe vector (x, y) of the state; in particular the axis swap (0, 1, 1, 0)
\* maps (2, 3) to (3, 2) and the projection (1, 0, 0, 0) maps (5, 7) to
\* (5, 0).
C14_TransformedProbeIsProduct ==
    ~rendering =>
        /\ transformedProbe.x = FAdd(FMul(matrix.a, probeVector.x),
                                     FMul(matrix.b, probeVector.y))
        /\ transformedProbe.y = FAdd(FMul(matrix.c, probeVector.x),
                                     FMul(matrix.d, probeVector.y))
        /\ (matrix = Entries("0", "1", "1", "0") /\ probeVector = Vector("2", "3"))
               => transformedProbe = Vector("3", "2")
        /\ (matrix = Entries("1", "0", "0", "0") /\ probeVector = Vector("5", "7"))
               => transformedProbe = Vector("5", "0")

\* C14 witness: the projection preset is applied to the probe vector (5, 7)
\* and the transformed probe is (5, 0).
C14_Witness ==
    /\ ~rendering /\ presetId = "proj-x" /\ matrix = Entries("1", "0", "0", "0")
    /\ probeVector = Vector("5", "7") /\ transformedProbe = Vector("5", "0")

----------------------------------------------------------------------------
(* Properties of a change of t *)

\* C15: the updater of an animation tick changes of the application state
\* only t, and the updater of a slider change only t and the playing flag:
\* the matrix, the probe vector, the pinned vectors, the camera, the grid
\* mode and the preset id are the same after either as before it.
C15_TChangeLeavesMatrix ==
    [][(Applies("tick") \/ Applies("t")) =>
          /\ <<matrix', probeVector', pinnedVectors', camera', gridMode', presetId'>>
                 = <<matrix, probeVector, pinnedVectors, camera, gridMode, presetId>>
          /\ Applies("tick") => isPlaying' = isPlaying]_vars

\* C15 witness: a tick has moved t to 0 in a state whose matrix, pin list,
\* camera, grid mode and preset id are no longer the initial ones.
C15_Witness ==
    /\ lastUpdate.kind = "tick" /\ t = Zero(1)
    /\ matrix # identityMatrix /\ presetId = "reflect-yx"
    /\ pinnedVectors # << >> /\ camera # INITIAL_CAMERA /\ gridMode = "transformed"

\* C17: the updater of every slider change leaves the playing flag false,
\* whatever it was before; only the updater of the play button sets the flag;
\* while the flag is false nothing but a slider change alters t; and once the
\* render is committed no frame callback is scheduled, so no tick overwrites
\* the chosen t before the play button is pressed again.
C17_SliderStopsPlayback ==
    /\ [][Applies("t") => ~isPlaying']_vars
    /\ [][(~isPlaying /\ isPlaying') => Applies("playPause")]_vars
    /\ [][(~isPlaying /\ t' # t) => Applies("t")]_vars
    /\ []((~isPlaying /\ ~rendering) => pending = {})

\* C17 witness: the slider was moved to one half while the animation was
\* playing (a frame of the period had run): the flag is false, nothing is
\* scheduled, and t is the chosen value.
C17_Witness ==
    /\ lastUpdate.kind = "t" /\ lastUpdate.arg = Literal("0.5")
    /\ frameSeen /\ requestRef # << >> /\ ~rendering
    /\ ~isPlaying /\ pending = {} /\ t = Literal("0.5")

----------------------------------------------------------------------------
(* Properties of panning *)

\* The camera `after` is the camera `before` with its offset shifted by the
\* pixel delta from the screen point `from` to the screen point `to`, divided
\* by the zoom and inverted on Y.
ShiftedBy(before, after, from, to) ==
    /\ after.zoom = before.zoom
    /\ after.offsetX = FSub(before.offsetX, FDiv(FromInt(to.x - from.x), before.zoom))
    /\ after.offsetY = FAdd(before.offsetY, FDiv(FromInt(to.y - from.y), before.zoom))

\* C16: a pointer-move while panning sets the moved flag, records the pointer
\* position and queues a camera; when its updater runs, the camera offset is
\* shifted by the pixel delta since the previous pointer event (the press for
\* the first move of a gesture, the move before it for every later one)
\* divided by the zoom, inverted on Y (offsetX' = offsetX - dx/zoom,
\* offsetY' = offsetY + dy/zoom), and the zoom and the probe vector are left
\* alone.
C16_PanShiftsOffset ==
    /\ [][(Handles("pointerMove") /\ dragModeRef = "pan") =>
             /\ Queues("camera")
             /\ Queued.last = lastPointerRef
             /\ lastEvent.name \in {"pointerDown", "pointerMove"} =>
                    lastPointerRef = lastEvent.point
             /\ pointerMovedRef'
             /\ dragModeRef' = "pan"]_vars
    /\ [][(Applies("camera") /\ Head(queue).event.name = "pointerMove") =>
             /\ ShiftedBy(camera, camera', Head(queue).last, Head(queue).event.point)
             /\ probeVector' = probeVector]_vars

====
